---- MODULE Spec2Model ----
(***************************************************************************)
(* A model of the per-architecture relocation core of the linker           *)
(* (src/elf/arch-arm32.cc: the ARM32 back-end, lines 1-617, and the        *)
(* PPC64V2 back-end, lines 619-1102).                                      *)
(*                                                                         *)
(* The linker runs its passes one after the other.  Each pass is modelled  *)
(* from every admissible pre-state: Init picks the pass (variable `pass`)  *)
(* and the back-end (variable `arch`), and the actions of a pass are       *)
(* guarded by it.                                                          *)
(*                                                                         *)
(*   pass = "scan"     InputSection<E>::scan_relocations, one thread per   *)
(*                     input section, followed by the emission of the      *)
(*                     dynamic relocations by the applier                  *)
(*   pass = "alloc"    InputSection<E>::apply_reloc_alloc                  *)
(*   pass = "nonalloc" InputSection<E>::apply_reloc_nonalloc               *)
(*   pass = "exidx"    sort_arm_exidx                                      *)
(*   pass = "halo"     the PPC64 lo/ha helpers                             *)
(*                                                                         *)
(* 64-bit quantities whose magnitude stays below 2^31 in the model are     *)
(* plain integers (no wrap-around can occur, so i64/u64 arithmetic and     *)
(* integer arithmetic agree).  Where the width matters a value is kept as  *)
(* little-endian 16-bit limbs and every operation is done modulo 2^w.      *)
(***************************************************************************)
EXTENDS Integers, Sequences, FiniteSets, TLC

VARIABLES
  pass,           \* the pass being run
  arch,           \* the back-end: "ARM32" or "PPC64V2"
  output_kind,    \* what is being linked: "SHARED", "PIE" or "PDE"
  fatal,          \* Fatal(ctx) was raised: the process has exited
  errors,         \* diagnostics recorded by Error(ctx) / record_undef_error
  \* ---- scan pass
  input,          \* relocation lists fixed in advance (<<>>: read on demand)
  si,             \* per section: 0 not started, 1..NumRels next relocation, NumRels+1 done
  flags,          \* Symbol::flags, per symbol
  num_dynrel,     \* ObjectFile::num_dynrel, per file
  reldyn_offset,  \* InputSection::reldyn_offset, per section
  needs_tlsld,    \* ctx.needs_tlsld
  contrib,        \* history: the flag sets each scanned relocation contributed, per symbol
  ndyn,           \* history: dynamic relocations reserved by each section
  pre_own,        \* history: per section, the counter (in bytes) just before its first own increment, -1 if none
  unknown_at,     \* history: <<section, index>> of the first unknown relocation the scanner met
  refs,           \* history: per symbol, how the relocations scanned so far refer to it ("call", "other")
  reldyn,         \* the output .rel.dyn stream: entry index -> writing section
  emitted,        \* sections whose dynamic relocations the applier has written
  run,            \* 1 or 2: which run of the linker this is
  prev,           \* the result of run 1 once run 2 has started
  \* ---- apply passes
  ai,             \* index of the next relocation of the section (1..NumRels+1)
  last,           \* the relocation applied last, with what the applier did
  trampoline_idx, \* apply_reloc_alloc's trampoline_idx: the thunk the search for a TLS trampoline is at
  \* ---- sort_arm_exidx
  ex_in,          \* the .ARM.exidx table on entry
  ex_tab,         \* the .ARM.exidx table in the output buffer
  ex_osec,        \* find_exidx_section found an SHT_ARM_EXIDX output section
  ex_size,        \* osec->shdr.sh_size
  ex_phase,       \* "input" before the call, "done" after it
  \* ---- lo / ha
  hx,             \* a 64-bit value
  hres,           \* <<ha(hx), lo(hx)>> once computed
  \* ---- the command line
  argv,           \* the arguments, each a sequence of characters
  oi,             \* index of the next argument to parse
  message,        \* what the linker wrote to stderr, a sequence of pieces
  output_file,    \* the output file has been written
  \* ---- RangeExtensionThunk::copy_buf
  th_sym,         \* the symbol of the slot and where the slot is
  th_buf          \* the words of the slot in the output buffer, <<>> before copy_buf

scanvars == <<input, si, flags, num_dynrel, reldyn_offset, needs_tlsld, contrib,
              ndyn, pre_own, unknown_at, refs, reldyn, emitted, run, prev>>

applyvars == <<ai, last, trampoline_idx>>

exvars == <<ex_in, ex_tab, ex_osec, ex_size, ex_phase>>

halovars == <<hx, hres>>

optvars == <<argv, oi, message, output_file>>

thunkvars == <<th_sym, th_buf>>

vars == <<pass, arch, output_kind, fatal, errors, scanvars, applyvars, exvars, halovars, optvars, thunkvars>>

(***************************************************************************)
(* Bounds of the model.                                                    *)
(***************************************************************************)
\* Relocations per input section.
NumRels == 2

(***************************************************************************)
(* Addressing primitives (mold.h; used throughout arch-arm32.cc).          *)
(***************************************************************************)
bit(val, pos) == (val \div (2^pos)) % 2

bits(val, hi, lo_) == (val \div (2^lo_)) % (2^(hi - lo_ + 1))

\* sign_extend(val, size): bit `size` is the sign bit.
sign_extend(val, size) ==
  LET m == val % (2^(size + 1))
  IN IF m >= 2^size THEN m - 2^(size + 1) ELSE m

align_to(val, align) == ((val + align - 1) \div align) * align

(***************************************************************************)
(* The scan pass: the data it works on.                                    *)
(***************************************************************************)
Archs == {"ARM32", "PPC64V2"}

Sections == {"s1", "s2"}

\* Both sections belong to the same object file.
FileOf(sec) == "f1"

Files == {FileOf(sec) : sec \in Sections}

\* InputSection::name()
SecName(sec) == IF sec = "s2" THEN ".toc" ELSE ".text"

Symbols == {"local", "imp", "ifn", "weak", "undef"}

\* What the symbol resolver produced: Symbol::file, is_ifunc(), is_imported and
\* the symbol kind that indexes the scan tables.  "weak" is a symbol that
\* remains undefined-weak: it was not resolved, hence is not imported, and it
\* belongs to the file that refers to it.
SymTab(s) ==
  CASE s = "local" -> [file |-> TRUE,  is_ifunc |-> FALSE, is_imported |-> FALSE, kind |-> "LOCAL"]
    [] s = "imp"   -> [file |-> TRUE,  is_ifunc |-> FALSE, is_imported |-> TRUE,  kind |-> "IMPORTED_CODE"]
    [] s = "ifn"   -> [file |-> TRUE,  is_ifunc |-> TRUE,  is_imported |-> FALSE, kind |-> "LOCAL"]
    [] s = "weak"  -> [file |-> TRUE,  is_ifunc |-> FALSE, is_imported |-> FALSE, kind |-> "ABS"]
    [] OTHER       -> [file |-> FALSE, is_ifunc |-> FALSE, is_imported |-> FALSE, kind |-> "ABS"]

Flags == {"NEEDS_GOT", "NEEDS_PLT", "NEEDS_CPLT", "NEEDS_GOTTP", "NEEDS_TLSGD",
          "NEEDS_COPYREL", "NEEDS_TLSDESC"}

\* sizeof(ElfRel<E>): ARM32 uses REL (two 32-bit words), PPC64V2 uses RELA
\* (three 64-bit words).
SizeofElfRel(a) == IF a = "ARM32" THEN 8 ELSE 24

(***************************************************************************)
(* The scan pass: relocation kinds, as the two scan_relocations switches   *)
(* group them.                                                             *)
(***************************************************************************)
ARM_ScanAbs == {"R_ARM_ABS32", "R_ARM_MOVT_ABS", "R_ARM_THM_MOVT_ABS", "R_ARM_TARGET1"}

ARM_ScanCall == {"R_ARM_THM_CALL", "R_ARM_CALL", "R_ARM_JUMP24", "R_ARM_THM_JUMP24"}

ARM_ScanGot == {"R_ARM_GOT_PREL", "R_ARM_GOT_BREL", "R_ARM_TARGET2"}

ARM_ScanPcrel == {"R_ARM_MOVT_PREL", "R_ARM_THM_MOVT_PREL", "R_ARM_PREL31"}

ARM_ScanIgnored ==
  {"R_ARM_REL32", "R_ARM_BASE_PREL", "R_ARM_THM_JUMP11", "R_ARM_THM_JUMP19",
   "R_ARM_MOVW_PREL_NC", "R_ARM_MOVW_ABS_NC", "R_ARM_THM_MOVW_PREL_NC",
   "R_ARM_THM_MOVW_ABS_NC", "R_ARM_TLS_LDO32", "R_ARM_TLS_LE32", "R_ARM_TLS_CALL",
   "R_ARM_THM_TLS_CALL", "R_ARM_V4BX"}

PPC_ScanIgnored ==
  {"R_PPC64_REL64", "R_PPC64_TOC16_HA", "R_PPC64_TOC16_LO", "R_PPC64_TOC16_LO_DS",
   "R_PPC64_TOC16_DS", "R_PPC64_REL16_HA", "R_PPC64_REL16_LO", "R_PPC64_PLT16_HI",
   "R_PPC64_PLT16_LO", "R_PPC64_PLT16_LO_DS", "R_PPC64_PLTSEQ", "R_PPC64_PLTCALL",
   "R_PPC64_TPREL16_HA", "R_PPC64_TPREL16_LO", "R_PPC64_GOT_TPREL16_LO_DS",
   "R_PPC64_GOT_TLSGD16_LO", "R_PPC64_GOT_TLSLD16_LO", "R_PPC64_TLS", "R_PPC64_TLSGD",
   "R_PPC64_TLSLD", "R_PPC64_DTPREL16_HA", "R_PPC64_DTPREL16_LO"}

\* The decisions a scan table can hold.
ScanActions == {"NONE", "BASEREL", "DYNREL", "COPYREL", "CPLT"}

OutputKinds == {"SHARED", "PIE", "PDE"}

\* toc_table[output kind][symbol kind]
toc_table(out, kind) ==
  CASE kind = "ABS" -> "NONE"
    [] kind = "LOCAL" -> IF out = "PDE" THEN "NONE" ELSE "BASEREL"
    [] OTHER -> "DYNREL"

\* scan_rel(ctx, sym, rel, table) with `act` the table's entry for the symbol:
\* the flags it ORs into the symbol and the entries it adds to file.num_dynrel.
scan_rel(act) ==
  CASE act = "COPYREL" -> [fl |-> {"NEEDS_COPYREL"}, dyn |-> 0]
    [] act = "CPLT"    -> [fl |-> {"NEEDS_CPLT"}, dyn |-> 0]
    [] act \in {"DYNREL", "BASEREL"} -> [fl |-> {}, dyn |-> 1]
    [] OTHER -> [fl |-> {}, dyn |-> 0]

NoEffect == [fl |-> {}, dyn |-> 0, tlsld |-> FALSE, diag |-> "none"]

\* The diagnostic each back-end's scan_relocations raises in its default case.
ARM_ScanDefault == "error"

PPC_ScanDefault == "fatal"

\* The switch of InputSection<ARM32>::scan_relocations.
ARM_ScanSwitch(rel, relax) ==
  LET sym == SymTab(rel.r_sym)
      k == rel.r_type
  IN CASE k \in ARM_ScanAbs \cup ARM_ScanPcrel ->
            [NoEffect EXCEPT !.fl = scan_rel(rel.act).fl, !.dyn = scan_rel(rel.act).dyn]
       [] k \in ARM_ScanCall ->
            [NoEffect EXCEPT !.fl = IF sym.is_imported THEN {"NEEDS_PLT"} ELSE {}]
       [] k \in ARM_ScanGot -> [NoEffect EXCEPT !.fl = {"NEEDS_GOT"}]
       [] k = "R_ARM_TLS_GD32" -> [NoEffect EXCEPT !.fl = {"NEEDS_TLSGD"}]
       [] k = "R_ARM_TLS_LDM32" -> [NoEffect EXCEPT !.tlsld = TRUE]
       [] k = "R_ARM_TLS_IE32" -> [NoEffect EXCEPT !.fl = {"NEEDS_GOTTP"}]
       [] k = "R_ARM_TLS_GOTDESC" ->
            [NoEffect EXCEPT !.fl = IF relax THEN {} ELSE {"NEEDS_TLSDESC"}]
       [] k \in ARM_ScanIgnored -> NoEffect
       [] OTHER -> [NoEffect EXCEPT !.diag = ARM_ScanDefault]

\* The switch of InputSection<PPC64V2>::scan_relocations.
PPC_ScanSwitch(rel, secname, out) ==
  LET sym == SymTab(rel.r_sym)
      k == rel.r_type
      act == IF secname = ".toc" THEN toc_table(out, sym.kind) ELSE rel.act
  IN CASE k = "R_PPC64_ADDR64" ->
            [NoEffect EXCEPT !.fl = scan_rel(act).fl, !.dyn = scan_rel(act).dyn]
       [] k = "R_PPC64_GOT_TPREL16_HA" -> [NoEffect EXCEPT !.fl = {"NEEDS_GOTTP"}]
       [] k = "R_PPC64_REL24" ->
            [NoEffect EXCEPT !.fl = IF sym.is_imported THEN {"NEEDS_PLT"} ELSE {}]
       [] k = "R_PPC64_PLT16_HA" -> [NoEffect EXCEPT !.fl = {"NEEDS_GOT"}]
       [] k = "R_PPC64_GOT_TLSGD16_HA" -> [NoEffect EXCEPT !.fl = {"NEEDS_TLSGD"}]
       [] k = "R_PPC64_GOT_TLSLD16_HA" -> [NoEffect EXCEPT !.tlsld = TRUE]
       [] k \in PPC_ScanIgnored -> NoEffect
       [] OTHER -> [NoEffect EXCEPT !.diag = PPC_ScanDefault]

\* `sym.flags = x`: the update with the flags already set dropped.
FlagsAssign(old, x) == x

\* `sym.flags |= x`
FlagsOr(old, x) == old \cup x

\* if (sym.is_ifunc()) sym.flags |= (NEEDS_GOT | NEEDS_PLT);
\* An IFUNC that only asks for a GOT entry.
IfuncFlagsGotOnly(sym) == IF sym.is_ifunc THEN {"NEEDS_GOT"} ELSE {}

IfuncFlags(sym) == IF sym.is_ifunc THEN {"NEEDS_GOT", "NEEDS_PLT"} ELSE {}

\* One iteration of the scan loop on relocation `rel`: what it does to the
\* symbol, the file and the context.  R_NONE and a symbol without a file are
\* skipped before the switch is reached.
\* An iteration that does not look at the owning file of the symbol.
ScanIterationAnyFile(a, rel, secname, out, relax) ==
  [ifunc |-> IfuncFlags(SymTab(rel.r_sym)),
   sw |-> IF rel.r_type = "R_NONE" THEN NoEffect
          ELSE IF a = "ARM32" THEN ARM_ScanSwitch(rel, relax)
          ELSE PPC_ScanSwitch(rel, secname, out)]

ScanIteration(a, rel, secname, out, relax) ==
  LET sym == SymTab(rel.r_sym)
      sw == IF a = "ARM32" THEN ARM_ScanSwitch(rel, relax)
            ELSE PPC_ScanSwitch(rel, secname, out)
  IN IF rel.r_type = "R_NONE" THEN [ifunc |-> {}, sw |-> NoEffect]
     ELSE IF ~sym.file THEN [ifunc |-> {}, sw |-> [NoEffect EXCEPT !.diag = "undef"]]
     ELSE [ifunc |-> IfuncFlags(sym), sw |-> sw]

(***************************************************************************)
(* The scan pass: the inputs it is run on.                                 *)
(***************************************************************************)
\* Kinds whose decision comes from dyn_absrel_table or pcrel_table.
UsesScanTable(k) == k \in ARM_ScanAbs \cup ARM_ScanPcrel \cup {"R_PPC64_ADDR64"}

\* A relocation as the scanner sees it; `act` is the entry of the scan table
\* that applies to it ("NONE" for a kind that consults no table).
ScanRelocation(k, s, x) == [r_type |-> k, r_sym |-> s, act |-> x]

\* The relocations the sections are made of: every group of the switch, against
\* local, imported, IFUNC and undefined symbols, and a kind the switch does not
\* know.
ARM_ScanSample ==
  {ScanRelocation("R_NONE", "imp", "NONE"),
   ScanRelocation("R_ARM_ABS32", "imp", "DYNREL"),
   ScanRelocation("R_ARM_ABS32", "imp", "COPYREL"),
   ScanRelocation("R_ARM_ABS32", "local", "BASEREL"),
   ScanRelocation("R_ARM_PREL31", "local", "NONE"),
   ScanRelocation("R_ARM_CALL", "imp", "NONE"),
   ScanRelocation("R_ARM_CALL", "local", "NONE"),
   ScanRelocation("R_ARM_THM_JUMP24", "ifn", "NONE"),
   ScanRelocation("R_ARM_THM_CALL", "weak", "NONE"),
   ScanRelocation("R_ARM_GOT_PREL", "imp", "NONE"),
   ScanRelocation("R_ARM_TLS_LDM32", "local", "NONE"),
   ScanRelocation("R_ARM_TLS_GOTDESC", "local", "NONE"),
   ScanRelocation("R_ARM_REL32", "undef", "NONE"),
   ScanRelocation("R_ARM_ABS32", "undef", "DYNREL"),
   ScanRelocation("R_ARM_THM_JUMP8", "ifn", "NONE"),
   ScanRelocation("R_ARM_THM_JUMP8", "local", "NONE")}

PPC_ScanSample ==
  {ScanRelocation("R_NONE", "imp", "NONE"),
   ScanRelocation("R_PPC64_ADDR64", "imp", "DYNREL"),
   ScanRelocation("R_PPC64_ADDR64", "imp", "COPYREL"),
   ScanRelocation("R_PPC64_ADDR64", "local", "BASEREL"),
   ScanRelocation("R_PPC64_REL24", "imp", "NONE"),
   ScanRelocation("R_PPC64_REL24", "local", "NONE"),
   ScanRelocation("R_PPC64_REL64", "ifn", "NONE"),
   ScanRelocation("R_PPC64_PLT16_HA", "imp", "NONE"),
   ScanRelocation("R_PPC64_GOT_TLSLD16_HA", "local", "NONE"),
   ScanRelocation("R_PPC64_REL24", "undef", "NONE"),
   ScanRelocation("R_PPC64_ADDR64", "undef", "DYNREL"),
   ScanRelocation("R_PPC64_ADDR16", "ifn", "NONE"),
   ScanRelocation("R_PPC64_ADDR16", "local", "NONE")}

ScanSample(a) == IF a = "ARM32" THEN ARM_ScanSample ELSE PPC_ScanSample

\* The rows of the scan tables that differ: a shared object and a
\* position-dependent executable.
SampleOutputKinds == {"SHARED", "PDE"}

\* relax_tlsdesc(ctx, sym)
relax_tlsdesc(out, s) == out # "SHARED" /\ ~SymTab(s).is_imported

\* rels[i] of section sec
Fetch(sec, i) == IF input[sec] = <<>> THEN ScanSample(arch) ELSE {input[sec][i]}

Done == NumRels + 1

AllScanned == \A sec \in Sections : si[sec] = Done

NoEntry == "-"

EmptyStream == [e \in 0..(Cardinality(Sections) * NumRels - 1) |-> NoEntry]

\* The variables of the passes that are not being run.
IdleApply == ai = 0 /\ last = [index |-> 0] /\ trampoline_idx = 0

IdleExidx ==
  ex_in = <<>> /\ ex_tab = <<>> /\ ex_osec = FALSE /\ ex_size = 0 /\ ex_phase = "idle"

IdleHaLo == hx = <<>> /\ hres = <<>>

IdleOpts == argv = <<>> /\ oi = 0 /\ message = <<>> /\ output_file = FALSE

IdleThunk == th_sym = <<>> /\ th_buf = <<>>

InitScanState ==
  /\ si = [sec \in Sections |-> 0]
  /\ flags = [s \in Symbols |-> {}]
  /\ num_dynrel = [f \in Files |-> 0]
  /\ reldyn_offset = [sec \in Sections |-> 0]
  /\ needs_tlsld = FALSE
  /\ contrib = [s \in Symbols |-> {}]
  /\ ndyn = [sec \in Sections |-> 0]
  /\ pre_own = [sec \in Sections |-> -1]
  /\ unknown_at = <<>>
  /\ refs = [s \in Symbols |-> {}]
  /\ reldyn = EmptyStream
  /\ emitted = {}

InitScan ==
  /\ pass = "scan"
  /\ arch \in Archs
  /\ output_kind \in SampleOutputKinds
  /\ fatal = FALSE
  /\ errors = {}
  /\ input = [sec \in Sections |-> <<>>]
  /\ InitScanState
  /\ run = 1
  /\ prev = <<>>
  /\ IdleApply /\ IdleExidx /\ IdleHaLo /\ IdleOpts /\ IdleThunk

(***************************************************************************)
(* The scan pass: its actions.  Every section is scanned by its own task.  *)
(***************************************************************************)
\* What `this->reldyn_offset = file.num_dynrel * sizeof(ElfRel<E>)` stores.
ReldynOffsetAtEntry(n, a) == n * SizeofElfRel(a)

\* scan_relocations up to its loop: the section records where its dynamic
\* relocations will start.
ScanEnter(sec) ==
  /\ pass = "scan" /\ ~fatal
  /\ si[sec] = 0
  /\ reldyn_offset' = [reldyn_offset EXCEPT
                         ![sec] = ReldynOffsetAtEntry(num_dynrel[FileOf(sec)], arch)]
  /\ si' = [si EXCEPT ![sec] = 1]
  /\ UNCHANGED <<applyvars, exvars, halovars, optvars, thunkvars>>
  /\ UNCHANGED <<pass, arch, output_kind, fatal, errors, input, flags, num_dynrel,
                 needs_tlsld, contrib, ndyn, pre_own, unknown_at, refs, reldyn, emitted,
                 run, prev>>

\* The call-type relocations of the two scanners.
ScanCallKinds == ARM_ScanCall \cup {"R_PPC64_REL24"}

\* How a relocation of kind k refers to its symbol.
RefClass(k) == IF k \in ScanCallKinds THEN "call" ELSE "other"

\* The diagnostics an iteration leaves in the context.
Diagnose(errs, d) ==
  CASE d = "undef" -> errs \cup {"undefined symbol"}
    [] d \in {"error", "fatal"} -> errs \cup {"unknown relocation"}
    [] OTHER -> errs

\* One iteration of the scan loop.  Its updates of shared state are atomic
\* read-modify-writes that commute with those of the other tasks, and it reads
\* no shared state, so the iteration is taken as one step.
ScanReloc(sec) ==
  /\ pass = "scan" /\ ~fatal
  /\ si[sec] \in 1..NumRels
  /\ \E rel \in Fetch(sec, si[sec]) :
       LET f == FileOf(sec)
           it == ScanIteration(arch, rel, SecName(sec), output_kind,
                               relax_tlsdesc(output_kind, rel.r_sym))
           sw == it.sw
           given == {it.ifunc, sw.fl} \ {{}}
       IN /\ flags' = [flags EXCEPT ![rel.r_sym] = FlagsOr(FlagsOr(@, it.ifunc), sw.fl)]
          /\ contrib' = [contrib EXCEPT ![rel.r_sym] = @ \cup given]
          /\ num_dynrel' = [num_dynrel EXCEPT ![f] = @ + sw.dyn]
          /\ ndyn' = [ndyn EXCEPT ![sec] = @ + sw.dyn]
          /\ pre_own' = IF sw.dyn > 0 /\ pre_own[sec] = -1
                        THEN [pre_own EXCEPT ![sec] = num_dynrel[f] * SizeofElfRel(arch)]
                        ELSE pre_own
          /\ needs_tlsld' = (needs_tlsld \/ sw.tlsld)
          /\ errors' = Diagnose(errors, sw.diag)
          /\ unknown_at' = IF sw.diag \in {"error", "fatal"} /\ unknown_at = <<>>
                           THEN <<sec, si[sec]>> ELSE unknown_at
          /\ refs' = IF rel.r_type = "R_NONE" THEN refs
                     ELSE [refs EXCEPT ![rel.r_sym] = @ \cup {RefClass(rel.r_type)}]
          /\ fatal' = (sw.diag = "fatal")
          /\ si' = IF sw.diag = "fatal" THEN si ELSE [si EXCEPT ![sec] = @ + 1]
  /\ UNCHANGED <<applyvars, exvars, halovars, optvars, thunkvars>>
  /\ UNCHANGED <<pass, arch, output_kind, input, reldyn_offset, reldyn, emitted, run, prev>>

\* file.reldyn_offset: the files' entries follow each other in input order.
\* There is one file, so its entries start the stream.
FileReldynOffset(f) == 0

\* Where section sec's dynamic relocations go: the entry index of
\* ctx.reldyn + file.reldyn_offset + this->reldyn_offset.
DynrelStart(sec) ==
  (FileReldynOffset(FileOf(sec)) + reldyn_offset[sec]) \div SizeofElfRel(arch)

\* The kinds for which the applier calls apply_dyn_absrel.
ARM_ApplyDynAbs == {"R_ARM_ABS32", "R_ARM_TARGET1"}
PPC_ApplyDynAbs == {"R_PPC64_ADDR64"}

\* apply_dyn_absrel: the number of entries it writes through dynrel for a
\* relocation whose table entry is act.
apply_dyn_absrel(act) == IF act \in {"DYNREL", "BASEREL"} THEN 1 ELSE 0

\* The entries one iteration of apply_reloc_alloc writes through dynrel.
AppliedDynrel(a, rel, secname, out) ==
  IF a = "ARM32"
  THEN IF rel.r_type \in ARM_ApplyDynAbs THEN apply_dyn_absrel(rel.act) ELSE 0
  ELSE IF rel.r_type \in PPC_ApplyDynAbs
       THEN apply_dyn_absrel(IF secname = ".toc"
                             THEN toc_table(out, SymTab(rel.r_sym).kind)
                             ELSE rel.act)
       ELSE 0

\* The entries apply_reloc_alloc writes for the relocations of rels.
RECURSIVE DynrelWritten(_, _, _, _)
DynrelWritten(a, rels, secname, out) ==
  IF rels = <<>> THEN 0
  ELSE AppliedDynrel(a, Head(rels), secname, out)
         + DynrelWritten(a, Tail(rels), secname, out)

\* apply_reloc_alloc of a section: dynrel starts at the section's offset and
\* moves on by one entry with every apply_dyn_absrel that writes.
ApplyDynrel(sec) ==
  /\ pass = "scan" /\ ~fatal
  /\ AllScanned
  /\ sec \notin emitted
  /\ reldyn' = [e \in DOMAIN reldyn |->
                  IF /\ e >= DynrelStart(sec)
                     /\ e < DynrelStart(sec)
                             + DynrelWritten(arch, input[sec], SecName(sec), output_kind)
                  THEN sec ELSE reldyn[e]]
  /\ emitted' = emitted \cup {sec}
  /\ UNCHANGED <<applyvars, exvars, halovars, optvars, thunkvars>>
  /\ UNCHANGED <<pass, arch, output_kind, fatal, errors, input, si, flags, num_dynrel,
                 reldyn_offset, needs_tlsld, contrib, ndyn, pre_own, unknown_at, refs,
                 run, prev>>

NextScan == \E sec \in Sections : ScanEnter(sec) \/ ScanReloc(sec)

(***************************************************************************)
(* Two runs of the linker over the same input: the relocation lists are    *)
(* fixed in advance, the applier emits the dynamic relocations once every  *)
(* section is scanned, and the linker is then run a second time.           *)
(***************************************************************************)
DetSample(a) ==
  IF a = "ARM32"
  THEN {ScanRelocation("R_NONE", "imp", "NONE"),
        ScanRelocation("R_ARM_ABS32", "imp", "DYNREL"),
        ScanRelocation("R_ARM_MOVT_ABS", "imp", "DYNREL"),
        ScanRelocation("R_ARM_CALL", "imp", "NONE")}
  ELSE {ScanRelocation("R_NONE", "imp", "NONE"),
        ScanRelocation("R_PPC64_ADDR64", "imp", "DYNREL"),
        ScanRelocation("R_PPC64_REL24", "imp", "NONE")}

InitDet ==
  /\ pass = "scan"
  /\ arch \in Archs
  /\ output_kind \in SampleOutputKinds
  /\ fatal = FALSE
  /\ errors = {}
  /\ input \in [Sections -> [1..NumRels -> DetSample(arch)]]
  /\ InitScanState
  /\ run = 1
  /\ prev = <<>>
  /\ IdleApply /\ IdleExidx /\ IdleHaLo /\ IdleOpts /\ IdleThunk

\* What a run leaves behind.
RunResult == [flags |-> flags, reldyn_offset |-> reldyn_offset, reldyn |-> reldyn]

RunComplete == AllScanned /\ emitted = Sections

\* The linker is started again on the same input.
Rerun ==
  /\ pass = "scan" /\ ~fatal
  /\ run = 1
  /\ RunComplete
  /\ prev' = RunResult
  /\ run' = 2
  /\ si' = [sec \in Sections |-> 0]
  /\ flags' = [s \in Symbols |-> {}]
  /\ num_dynrel' = [f \in Files |-> 0]
  /\ reldyn_offset' = [sec \in Sections |-> 0]
  /\ needs_tlsld' = FALSE
  /\ contrib' = [s \in Symbols |-> {}]
  /\ ndyn' = [sec \in Sections |-> 0]
  /\ pre_own' = [sec \in Sections |-> -1]
  /\ unknown_at' = <<>>
  /\ refs' = [s \in Symbols |-> {}]
  /\ reldyn' = EmptyStream
  /\ emitted' = {}
  /\ errors' = {}
  /\ UNCHANGED <<applyvars, exvars, halovars, optvars, thunkvars>>
  /\ UNCHANGED <<pass, arch, output_kind, fatal, input>>

NextDet == NextScan \/ (\E sec \in Sections : ApplyDynrel(sec)) \/ Rerun

SpecDet == InitDet /\ [][NextDet]_vars

(***************************************************************************)
(* Machine words.  A 32-bit little-endian word at `loc` is the pair of its *)
(* halfwords <<loc[0..1], loc[2..3]>>; a 64-bit value is the              *)
(* tuple of its four 16-bit limbs, least significant first.                *)
(***************************************************************************)
RECURSIVE BitAnd(_, _)
\* a & b
BitAnd(a, b) ==
  IF a = 0 \/ b = 0 THEN 0
  ELSE (a % 2) * (b % 2) + 2 * BitAnd(a \div 2, b \div 2)

\* a | b
BitOr(a, b) == a + b - BitAnd(a, b)

\* a ^ b on single bits
BitXor(a, b) == (a + b) % 2

\* the ul32 store `loc = val`
Word32(val) == <<val % 65536, (val \div 65536) % 65536>>

\* (u64)val for an integer of magnitude below 2^31
ToU64(val) ==
  <<val % 65536, (val \div 65536) % 65536,
    IF val < 0 THEN 65535 ELSE 0, IF val < 0 THEN 65535 ELSE 0>>

\* a + b modulo 2^64
Add64(a, b) ==
  LET s1 == a[1] + b[1]
      s2 == a[2] + b[2] + s1 \div 65536
      s3 == a[3] + b[3] + s2 \div 65536
      s4 == a[4] + b[4] + s3 \div 65536
  IN <<s1 % 65536, s2 % 65536, s3 % 65536, s4 % 65536>>

\* x >> 16
Shr16(x) == <<x[2], x[3], x[4], 0>>

\* x << 16, modulo 2^64
Shl16(x) == <<0, x[1], x[2], x[3]>>

\* static u64 lo(u64 x) { return x & 0xffff; }
lo(x) == <<x[1], 0, 0, 0>>

\* static u64 hi(u64 x) { return x >> 16; }
hi(x) == Shr16(x)

\* The high part without the rounding term.
ha_truncating(x) == Shr16(x)

\* static u64 ha(u64 x) { return (x + 0x8000) >> 16; }
ha(x) == Shr16(Add64(x, <<32768, 0, 0, 0>>))

(***************************************************************************)
(* The apply pass over an allocated section: ARM32.                        *)
(***************************************************************************)
\* static void write_thm_b_imm(u8 *loc, u32 val)
write_thm_b_imm(buf, val) ==
  LET sign == bit(val, 24)
      I1 == bit(val, 23)
      I2 == bit(val, 22)
      J1 == BitXor(1 - I1, sign)
      J2 == BitXor(1 - I2, sign)
      imm10 == bits(val, 21, 12)
      imm11 == bits(val, 11, 1)
  IN <<BitOr(BitOr(BitAnd(buf[1], 63488), sign * 1024), imm10),
       BitOr(BitOr(BitOr(BitAnd(buf[2], 53248), J1 * 8192), J2 * 2048), imm11)>>

\* the second halfword |= 0x1000
RewriteToBL(buf) == <<buf[1], BitOr(buf[2], 4096)>>

\* A rewrite that leaves the branch as it was found.
KeepBranch(buf) == buf

\* the second halfword &= ~0x1000
RewriteToBLX(buf) == <<buf[1], BitAnd(buf[2], 61439)>>

\* static bool is_jump_reachable(i64 val)
is_jump_reachable(val) == sign_extend(val, 24) = val

\* 0xe320f000
ARM_NOP == <<61440, 58144>>

\* The halfwords of NOP.W in the wrong order.
THM_NOP_W_Swapped == <<32768, 62383>>

\* 0x8000f3af
THM_NOP_W == <<62383, 32768>>

\* top8 << 24 | imm24, as a word
ArmInsn(top8, imm24) == <<imm24 % 65536, top8 * 256 + imm24 \div 65536>>

\* #define T (sym.get_addr(ctx) & 1)
T(rel) == rel.S % 2

\* The two assertions of get_thumb_thunk_addr.
ThunkAsserted(rel) ==
  /\ rel.thunk # -1
  /\ is_jump_reachable(rel.thunk + rel.A - rel.P)

get_thumb_thunk_addr(rel) == rel.thunk

get_arm_thunk_addr(rel) == get_thumb_thunk_addr(rel) + 4

\* What one iteration of the loop did: how the site was handled, the bytes at
\* the site afterwards, the word after the site, the value that was encoded,
\* and the diagnostic raised.
Applied(how, insn, next, val, sev, msg) ==
  [how |-> how, insn |-> insn, next |-> next, val |-> val, sev |-> sev, msg |-> msg]

ARM_AllocKinds ==
  {"R_ARM_ABS32", "R_ARM_TARGET1", "R_ARM_REL32", "R_ARM_THM_CALL",
   "R_ARM_BASE_PREL", "R_ARM_GOT_PREL", "R_ARM_TARGET2", "R_ARM_GOT_BREL",
   "R_ARM_CALL", "R_ARM_JUMP24", "R_ARM_THM_JUMP11", "R_ARM_THM_JUMP19",
   "R_ARM_THM_JUMP24", "R_ARM_MOVW_PREL_NC", "R_ARM_MOVW_ABS_NC",
   "R_ARM_THM_MOVW_PREL_NC", "R_ARM_PREL31", "R_ARM_THM_MOVW_ABS_NC",
   "R_ARM_MOVT_PREL", "R_ARM_THM_MOVT_PREL", "R_ARM_MOVT_ABS",
   "R_ARM_THM_MOVT_ABS", "R_ARM_TLS_GD32", "R_ARM_TLS_LDM32",
   "R_ARM_TLS_LDO32", "R_ARM_TLS_IE32", "R_ARM_TLS_LE32",
   "R_ARM_TLS_GOTDESC", "R_ARM_TLS_CALL", "R_ARM_THM_TLS_CALL"}

\* case R_ARM_THM_CALL
ARM_ThmCall(rel) ==
  LET val == rel.S + rel.A - rel.P
      tval == align_to(get_arm_thunk_addr(rel) + rel.A - rel.P, 4)
  IN IF rel.weak THEN Applied("nop", THM_NOP_W, rel.next, 0, "none", "")
     ELSE IF is_jump_reachable(val)
     THEN IF T(rel) = 1
          THEN Applied("direct", RewriteToBL(write_thm_b_imm(rel.insn, val)),
                       rel.next, val, "none", "")
          ELSE Applied("direct",
                       RewriteToBLX(write_thm_b_imm(rel.insn, align_to(val, 4))),
                       rel.next, align_to(val, 4), "none", "")
     ELSE IF ~ThunkAsserted(rel)
     THEN Applied("assert", rel.insn, rel.next, 0, "fatal", "assertion failed")
     ELSE Applied("thunk", RewriteToBLX(write_thm_b_imm(rel.insn, tval)),
                  rel.next, tval, "none", "")

\* case R_ARM_CALL
ARM_Call(rel) ==
  LET is_bl == rel.insn[2] \div 256 = 235
      is_blx == rel.insn[2] \div 512 = 125
      val == rel.S + rel.A - rel.P
      tval == get_arm_thunk_addr(rel) + rel.A - rel.P
  IN IF ~is_bl /\ ~is_blx
     THEN Applied("fatal", rel.insn, rel.next, 0, "fatal",
                  "R_ARM_CALL refers neither BL nor BLX")
     ELSE IF rel.weak THEN Applied("nop", ARM_NOP, rel.next, 0, "none", "")
     ELSE IF is_jump_reachable(val)
     THEN IF T(rel) = 1
          THEN Applied("direct", ArmInsn(250 + bit(val, 1), bits(val, 25, 2)),
                       rel.next, val, "none", "")
          ELSE Applied("direct", ArmInsn(235, bits(val, 25, 2)),
                       rel.next, val, "none", "")
     ELSE IF ~ThunkAsserted(rel)
     THEN Applied("assert", rel.insn, rel.next, 0, "fatal", "assertion failed")
     ELSE Applied("thunk", ArmInsn(235, bits(tval, 25, 2)),
                  rel.next, tval, "none", "")

\* case R_ARM_JUMP24
\* A B that always goes to S + A - P.
ARM_Jump24_Direct(rel) ==
  Applied("direct", ArmInsn(rel.insn[2] \div 256, bits(rel.S + rel.A - rel.P, 25, 2)),
          rel.next, rel.S + rel.A - rel.P, "none", "")

ARM_Jump24(rel) ==
  LET val == rel.S + rel.A - rel.P
      routed == ~is_jump_reachable(val) \/ T(rel) = 1
      tval == get_arm_thunk_addr(rel) + rel.A - rel.P
      top8 == rel.insn[2] \div 256
  IN IF rel.weak THEN Applied("nop", ARM_NOP, rel.next, 0, "none", "")
     ELSE IF ~routed
     THEN Applied("direct", ArmInsn(top8, bits(val, 25, 2)), rel.next, val, "none", "")
     ELSE IF ~ThunkAsserted(rel)
     THEN Applied("assert", rel.insn, rel.next, 0, "fatal", "assertion failed")
     ELSE Applied("thunk", ArmInsn(top8, bits(tval, 25, 2)), rel.next, tval, "none", "")

\* case R_ARM_THM_JUMP24
ARM_ThmJump24(rel) ==
  LET val == rel.S + rel.A - rel.P
      routed == ~is_jump_reachable(val) \/ T(rel) = 0
      tval == get_thumb_thunk_addr(rel) + rel.A - rel.P
  IN IF rel.weak THEN Applied("nop", THM_NOP_W, rel.next, 0, "none", "")
     ELSE IF ~routed
     THEN Applied("direct", write_thm_b_imm(rel.insn, val), rel.next, val, "none", "")
     ELSE IF ~ThunkAsserted(rel)
     THEN Applied("assert", rel.insn, rel.next, 0, "fatal", "assertion failed")
     ELSE Applied("thunk", write_thm_b_imm(rel.insn, tval), rel.next, tval, "none", "")

\* What `default:` of the switch of apply_reloc_alloc raises, per back-end.
ARM_AllocDefault == "error"

PPC_AllocDefault == "fatal"

\* One iteration of the loop of InputSection<ARM32>::apply_reloc_alloc.  The
\* kinds the model draws are worked out to the bit; the other kinds of the
\* switch are known kinds whose bytes the model does not follow.
\* The addresses of the thunks of the output section, in the order of
\* output_section->thunks: sh_addr + thunk.offset.
ARM_Thunks == <<65536, 2^25>>

\* The loop of get_trampoline_addr: the index it stops at, Len(ARM_Thunks)
\* when it runs past the last thunk.
RECURSIVE TrampolineSearch(_, _)
TrampolineSearch(addr, idx) ==
  IF idx >= Len(ARM_Thunks) THEN idx
  ELSE IF is_jump_reachable(ARM_Thunks[idx + 1] - addr) THEN idx
  ELSE TrampolineSearch(addr, idx + 1)

\* sym.has_tlsdesc(ctx): the allocator gave the symbol a descriptor, which it
\* does for the symbols flagged NEEDS_TLSDESC.
has_tlsdesc(rel) == "NEEDS_TLSDESC" \in rel.sym_flags

ARM_TlsKinds == {"R_ARM_TLS_GOTDESC", "R_ARM_TLS_CALL", "R_ARM_THM_TLS_CALL"}

\* The address get_trampoline_addr is called with: P + 8 from ARM code,
\* P + 4 from Thumb code.
TrampolineArg(rel) == rel.P + (IF rel.r_type = "R_ARM_TLS_CALL" THEN 8 ELSE 4)

\* trampoline_idx after the iteration on rel.
TrampolineIdxAfter(rel, idx) ==
  IF rel.r_type \in {"R_ARM_TLS_CALL", "R_ARM_THM_TLS_CALL"} /\ has_tlsdesc(rel)
  THEN TrampolineSearch(TrampolineArg(rel), idx)
  ELSE idx

\* A GOTDESC that subtracts 4 whatever the instruction set of the call.
ARM_TlsGotdescArmOnly(rel) ==
  IF has_tlsdesc(rel)
  THEN Applied("desc", Word32(rel.tlsdesc_addr - rel.P + rel.A - 4), rel.next,
               rel.tlsdesc_addr - rel.P + rel.A - 4, "none", "")
  ELSE Applied("relaxed", Word32(rel.S - rel.tp_addr), rel.next,
               rel.S - rel.tp_addr, "none", "")

ARM_TlsGotdesc(rel) ==
  LET val == rel.tlsdesc_addr - rel.P + rel.A - (IF rel.A % 2 = 1 THEN 6 ELSE 4)
  IN IF has_tlsdesc(rel)
     THEN Applied("desc", Word32(val), rel.next, val, "none", "")
     ELSE Applied("relaxed", Word32(rel.S - rel.tp_addr), rel.next,
                  rel.S - rel.tp_addr, "none", "")

\* R_ARM_TLS_CALL and R_ARM_THM_TLS_CALL.  When the search runs past the last
\* thunk the lambda reaches unreachable(): the build either stops there or
\* goes on with a value that is not a displacement to any thunk.
ARM_TlsCall(rel, idx, aborts) ==
  LET thumb == rel.r_type = "R_ARM_THM_TLS_CALL"
      j == TrampolineSearch(TrampolineArg(rel), idx)
      disp == IF j < Len(ARM_Thunks) THEN ARM_Thunks[j + 1] - TrampolineArg(rel) ELSE 0
      insn == IF thumb THEN RewriteToBLX(write_thm_b_imm(rel.insn, align_to(disp, 4)))
              ELSE ArmInsn(235, bits(disp, 25, 2))
  IN IF ~has_tlsdesc(rel)
     THEN Applied("relaxed", IF thumb THEN THM_NOP_W ELSE ARM_NOP, rel.next, 0, "none", "")
     ELSE IF j >= Len(ARM_Thunks)
     THEN IF aborts
          THEN Applied("unreachable", rel.insn, rel.next, 0, "fatal", "unreachable")
          ELSE Applied("unreachable", insn, rel.next, 0, "none", "")
     ELSE Applied("trampoline", insn, rel.next, disp, "none", "")

ARM_ApplyAlloc(rel, idx, aborts) ==
  CASE rel.r_type \in {"R_NONE", "R_ARM_V4BX"} ->
         Applied("skip", rel.insn, rel.next, 0, "none", "")
    [] rel.r_type = "R_ARM_REL32" ->
         Applied("word", Word32(rel.S + rel.A - rel.P), rel.next,
                 rel.S + rel.A - rel.P, "none", "")
    [] rel.r_type = "R_ARM_THM_CALL" -> ARM_ThmCall(rel)
    [] rel.r_type = "R_ARM_CALL" -> ARM_Call(rel)
    [] rel.r_type = "R_ARM_JUMP24" -> ARM_Jump24(rel)
    [] rel.r_type = "R_ARM_THM_JUMP24" -> ARM_ThmJump24(rel)
    [] rel.r_type = "R_ARM_TLS_GOTDESC" -> ARM_TlsGotdesc(rel)
    [] rel.r_type \in {"R_ARM_TLS_CALL", "R_ARM_THM_TLS_CALL"} ->
         ARM_TlsCall(rel, idx, aborts)
    [] rel.r_type \in (ARM_AllocKinds \ ARM_TlsKinds)
         \ {"R_ARM_REL32", "R_ARM_THM_CALL", "R_ARM_CALL", "R_ARM_JUMP24",
            "R_ARM_THM_JUMP24"} ->
         Applied("other", rel.insn, rel.next, 0, "none", "")
    [] OTHER ->
         Applied("unknown", rel.insn, rel.next, 0, ARM_AllocDefault,
                 "unknown relocation")

(***************************************************************************)
(* The apply pass over an allocated section: PPC64V2.                      *)
(***************************************************************************)
PPC_AllocKinds ==
  {"R_PPC64_ADDR64", "R_PPC64_TOC16_HA", "R_PPC64_TOC16_LO", "R_PPC64_TOC16_DS",
   "R_PPC64_TOC16_LO_DS", "R_PPC64_REL24", "R_PPC64_REL64", "R_PPC64_REL16_HA",
   "R_PPC64_REL16_LO", "R_PPC64_PLT16_HA", "R_PPC64_PLT16_HI",
   "R_PPC64_PLT16_LO", "R_PPC64_PLT16_LO_DS", "R_PPC64_GOT_TPREL16_HA",
   "R_PPC64_GOT_TLSGD16_HA", "R_PPC64_GOT_TLSGD16_LO", "R_PPC64_GOT_TLSLD16_HA",
   "R_PPC64_GOT_TLSLD16_LO", "R_PPC64_DTPREL16_HA", "R_PPC64_TPREL16_HA",
   "R_PPC64_DTPREL16_LO", "R_PPC64_TPREL16_LO", "R_PPC64_GOT_TPREL16_LO_DS",
   "R_PPC64_PLTSEQ", "R_PPC64_PLTCALL", "R_PPC64_TLS", "R_PPC64_TLSGD",
   "R_PPC64_TLSLD"}

\* static u64 get_local_entry_offset(Context<E> &ctx, Symbol<E> &sym);
\* -1 stands for the Fatal raised on the reserved value 7.
get_local_entry_offset(ple) ==
  IF ple = 0 \/ ple = 1 THEN 0 ELSE IF ple = 7 THEN -1 ELSE 2^ple

\* The `check` lambda: what it raises for val against [lo_, hi_).
check(val, lo_, hi_) ==
  IF val < lo_ \/ hi_ <= val THEN "error" ELSE "none"

\* 0x60000000
PPC_NOP == <<0, 24576>>

\* ld r2, 40(r1), the TOC save slot of the ELFv1 ABI.
PPC_LD_R2_V1 == <<40, 59457>>

\* 0xe8410018: ld r2, 24(r1)
PPC_LD_R2 == <<24, 59457>>

\* case R_PPC64_REL24
\* A REL24 that always branches to S + A - P.
PPC_Rel24_Direct(rel) ==
  Applied("direct", rel.insn, rel.next, rel.S + rel.A - rel.P, "none", "")

PPC_Rel24(rel) ==
  LET leo == get_local_entry_offset(rel.local_entry)
      val0 == rel.S + rel.A - rel.P + leo
      routed == rel.has_plt \/ sign_extend(val0, 25) # val0
      val == IF routed THEN rel.thunk + rel.A - rel.P ELSE val0
      sev == check(val, -(2^25), 2^25)
      field == bits(val, 25, 2) * 4
      insn == <<BitOr(rel.insn[1], field % 65536),
                BitOr(rel.insn[2], field \div 65536)>>
      next == IF rel.has_plt /\ rel.next = PPC_NOP THEN PPC_LD_R2 ELSE rel.next
  IN IF leo = -1
     THEN Applied("fatal", rel.insn, rel.next, 0, "fatal",
                  "local entry offset 7 is reserved")
     ELSE IF routed /\ rel.thunk = -1
     THEN Applied("assert", rel.insn, rel.next, 0, "fatal", "assertion failed")
     ELSE Applied(IF routed THEN "thunk" ELSE "direct", insn, next, val,
                  sev, IF sev = "none" THEN "" ELSE "out of range")

\* One iteration of the loop of InputSection<PPC64V2>::apply_reloc_alloc.
PPC_ApplyAlloc(rel) ==
  CASE rel.r_type = "R_NONE" ->
         Applied("skip", rel.insn, rel.next, 0, "none", "")
    [] rel.r_type = "R_PPC64_REL24" -> PPC_Rel24(rel)
    [] rel.r_type = "R_PPC64_REL16_HA" ->
         Applied("half", <<ha(ToU64(rel.S + rel.A - rel.P))[1], rel.insn[2]>>,
                 rel.next, rel.S + rel.A - rel.P, "none", "")
    [] rel.r_type = "R_PPC64_REL16_LO" ->
         Applied("half", <<(rel.S + rel.A - rel.P) % 65536, rel.insn[2]>>,
                 rel.next, rel.S + rel.A - rel.P, "none", "")
    [] rel.r_type \in {"R_PPC64_PLTSEQ", "R_PPC64_PLTCALL", "R_PPC64_TLS",
                       "R_PPC64_TLSGD", "R_PPC64_TLSLD"} ->
         Applied("skip", rel.insn, rel.next, 0, "none", "")
    [] rel.r_type \in PPC_AllocKinds
         \ {"R_PPC64_REL24", "R_PPC64_REL16_HA", "R_PPC64_REL16_LO",
            "R_PPC64_PLTSEQ", "R_PPC64_PLTCALL", "R_PPC64_TLS", "R_PPC64_TLSGD",
            "R_PPC64_TLSLD"} ->
         Applied("other", rel.insn, rel.next, 0, "none", "")
    [] OTHER ->
         Applied("unknown", rel.insn, rel.next, 0, PPC_AllocDefault,
                 "apply_reloc_alloc relocation")

(***************************************************************************)
(* The thunk planner (elf/thunks.cc) runs before the applier and fills     *)
(* extra.range_extn.  What it guarantees is what the applier asserts on    *)
(* entry to get_thumb_thunk_addr: a relocation that needs a thunk has an   *)
(* entry, and the slot's address is within reach of the site.              *)
(***************************************************************************)
ARM_BranchKinds == {"R_ARM_CALL", "R_ARM_THM_CALL", "R_ARM_JUMP24", "R_ARM_THM_JUMP24"}

SiteIsThumb(k) == k \in {"R_ARM_THM_CALL", "R_ARM_THM_JUMP24"}

\* The reach of a direct branch, per back-end.
Reachable(a, val) ==
  IF a = "ARM32" THEN is_jump_reachable(val) ELSE sign_extend(val, 25) = val

needs_thunk(a, rel) ==
  IF a = "ARM32"
  THEN /\ rel.r_type \in ARM_BranchKinds
       /\ ~rel.weak
       /\ \/ ~is_jump_reachable(rel.S + rel.A - rel.P)
          \/ (T(rel) = 1) # SiteIsThumb(rel.r_type)
  ELSE /\ rel.r_type = "R_PPC64_REL24"
       /\ rel.local_entry # 7
       /\ \/ rel.has_plt
          \/ ~Reachable(a, rel.S + rel.A - rel.P
                           + get_local_entry_offset(rel.local_entry))

\* Thunk slot addresses: one close to the site and the two ends of the reach.
ThunkSlots(a, A, P) ==
  LET reach == IF a = "ARM32" THEN 2^24 ELSE 2^25
  IN {t \in {P + 8192, P - A + reach - 4, P - A - reach} : t % 4 = 0}

\* extra.range_extn[i], as the address of the slot (-1: no entry)
range_extn(a, rel) ==
  IF needs_thunk(a, rel)
  THEN {t \in ThunkSlots(a, rel.A, rel.P) : Reachable(a, t + rel.A - rel.P)}
  ELSE {-1}

(***************************************************************************)
(* The relocations the apply pass is run on.                               *)
(***************************************************************************)
AllocRelocation(k, S, weak, A, P, insn, next, thunk, has_plt, ple) ==
  [r_type |-> k, S |-> S, weak |-> weak, A |-> A, P |-> P, insn |-> insn,
   next |-> next, thunk |-> thunk, has_plt |-> has_plt, local_entry |-> ple]

\* The instruction found at the site, per kind: for R_ARM_CALL a BL
\* (0xeb000000), a BLX (0xfa000000) and a MOV (0xe1a00000); for R_ARM_JUMP24 a
\* B (0xea000000); for the Thumb kinds BL (0xf000 0xd000), BLX (0xf000 0xc000)
\* and B.W (0xf000 0x9000); for R_PPC64_REL24 a BL (0x48000001).
SiteInsns(k) ==
  CASE k = "R_ARM_CALL" -> {<<0, 60160>>, <<0, 64000>>, <<0, 57760>>}
    [] k = "R_ARM_JUMP24" -> {<<0, 59904>>, <<65534, 2815>>}
    [] k = "R_ARM_THM_CALL" -> {<<61440, 53248>>, <<61440, 49152>>}
    [] k = "R_ARM_THM_JUMP24" -> {<<61440, 36864>>, <<63487, 49150>>}
    [] k = "R_PPC64_REL24" -> {<<1, 18432>>}
    [] OTHER -> {<<0, 0>>}

\* Sites and symbol addresses.  A symbol is near the site or just beyond the
\* reach of a branch, in ARM state (even address) or Thumb state (odd).
ARM_Sites(k) == IF SiteIsThumb(k) THEN {65536, 65538} ELSE {65536}

ARM_Addend(k) == IF SiteIsThumb(k) THEN -4 ELSE -8

ARM_SymAddrs(P) == {P + 4096, P + 4097, P + 16777224, P + 16777225}

ARM_AllocSample ==
  LET drawn == {"R_NONE", "R_ARM_REL32", "R_ARM_CALL", "R_ARM_THM_CALL",
                "R_ARM_JUMP24", "R_ARM_THM_JUMP24", "R_ARM_THM_JUMP8"}
      base == UNION {
        UNION {
          {AllocRelocation(k, S, FALSE, ARM_Addend(k), P, insn, <<0, 0>>, -1, FALSE, 0)
             : S \in ARM_SymAddrs(P)}
          \cup {AllocRelocation(k, 0, TRUE, ARM_Addend(k), P, insn, <<0, 0>>, -1, FALSE, 0)}
          : insn \in SiteInsns(k)}
        : <<k, P>> \in {<<k, P>> \in drawn \X {65536, 65538} : P \in ARM_Sites(k)}}
  IN UNION {{[r EXCEPT !.thunk = t] : t \in range_extn("ARM32", r)} : r \in base}

PPC_AllocSample ==
  LET drawn == {"R_NONE", "R_PPC64_REL24", "R_PPC64_REL16_HA",
                "R_PPC64_REL16_LO", "R_PPC64_PLTSEQ", "R_PPC64_ADDR16"}
      base == UNION {
        IF k = "R_PPC64_REL24"
        THEN {AllocRelocation(k, S, FALSE, 0, 65536, <<1, 18432>>, next, -1, plt, ple)
                : <<S, next, plt, ple>> \in
                    {65536 + 4096, 65536 + 2^25} \X {PPC_NOP, PPC_LD_R2, <<0, 0>>}
                       \X BOOLEAN \X {0, 3, 7}}
        ELSE {AllocRelocation(k, S, FALSE, 0, 65536, <<0, 0>>, <<0, 0>>, -1, FALSE, 0)
                : S \in {65536 + 4096, 65536 + 40000}}
        : k \in drawn}
  IN UNION {{[r EXCEPT !.thunk = t] : t \in range_extn("PPC64V2", r)} : r \in base}

\* A TLS-descriptor relocation against a symbol for which relax_tlsdesc gave
\* relax; sym_flags is what the scan of its R_ARM_TLS_GOTDESC left on it.
TlsRelocation(k, A, P, insn, relax) ==
  [r_type |-> k, S |-> 2^21 + 16, weak |-> FALSE, A |-> A, P |-> P, insn |-> insn,
   next |-> <<0, 0>>, thunk |-> -1, has_plt |-> FALSE, local_entry |-> 0,
   relax |-> relax,
   sym_flags |-> ARM_ScanSwitch(ScanRelocation("R_ARM_TLS_GOTDESC", "local", "NONE"),
                                relax).fl,
   tlsdesc_addr |-> 2^20 + 64, tp_addr |-> 2^21]

\* The TLS-descriptor relocations of the section: a GOTDESC word for a call
\* from ARM (even addend) and from Thumb (odd addend), and calls at sites
\* near the first thunk and near the second.
ARM_TlsSample ==
  {TlsRelocation("R_ARM_TLS_GOTDESC", A, 131072 + 64, <<0, 0>>, relax)
     : <<A, relax>> \in {8, 5} \X BOOLEAN}
  \cup {TlsRelocation("R_ARM_TLS_CALL", 0, P, <<65534, 60415>>, relax)
          : <<P, relax>> \in {131072, 25165824} \X BOOLEAN}
  \cup {TlsRelocation("R_ARM_THM_TLS_CALL", 0, P, <<63487, 65534>>, relax)
          : <<P, relax>> \in {131072, 131074, 25165824} \X BOOLEAN}

AllocSample(a) == IF a = "ARM32" THEN ARM_AllocSample \cup ARM_TlsSample ELSE PPC_AllocSample

NoReloc == [index |-> 0]

\* The variables of the scan pass while another pass is run.
IdleScan ==
  /\ output_kind = "PDE"
  /\ fatal = FALSE
  /\ errors = {}
  /\ input = [sec \in Sections |-> <<>>]
  /\ InitScanState
  /\ run = 1
  /\ prev = <<>>

InitAlloc ==
  /\ pass = "alloc"
  /\ arch \in Archs
  /\ ai = 1
  /\ last = NoReloc
  /\ trampoline_idx = 0
  /\ IdleScan /\ IdleExidx /\ IdleHaLo /\ IdleOpts /\ IdleThunk

\* One iteration of the loop of apply_reloc_alloc.
ApplyAlloc ==
  /\ pass = "alloc" /\ ~fatal
  /\ ai <= NumRels
  /\ \E rel \in AllocSample(arch), aborts \in BOOLEAN :
       LET out == IF arch = "ARM32" THEN ARM_ApplyAlloc(rel, trampoline_idx, aborts)
                  ELSE PPC_ApplyAlloc(rel)
       IN /\ last' = [index |-> ai, rel |-> rel, out |-> out]
          /\ fatal' = (out.sev = "fatal")
          /\ errors' = IF out.sev = "none" THEN errors ELSE errors \cup {out.msg}
          /\ ai' = IF out.sev = "fatal" THEN ai ELSE ai + 1
          /\ trampoline_idx' = IF arch = "ARM32" THEN TrampolineIdxAfter(rel, trampoline_idx)
                               ELSE trampoline_idx
  /\ UNCHANGED <<pass, arch, output_kind, scanvars, exvars, halovars, optvars, thunkvars>>

(***************************************************************************)
(* The apply pass over a non-allocated section.                            *)
(***************************************************************************)
\* What one iteration of the loop did: how the relocation was handled, the
\* 16-bit units written at the site (<<>>: nothing), the diagnostic raised.
Patched(how, bytes, sev, msg) ==
  [how |-> how, bytes |-> bytes, sev |-> sev, msg |-> msg]

\* #define S (frag ? frag->get_addr(ctx) : sym.get_addr(ctx))
NonallocS(rel) == IF rel.frag THEN rel.frag_addr ELSE rel.S

\* #define A (frag ? frag_addend : this->get_addend(rel))
NonallocA(rel) == IF rel.frag THEN rel.frag_addend ELSE rel.A

\* A default case that only records an error.
NonallocDefaultError == "error"

\* What `default:` of the switch of apply_reloc_nonalloc raises.
NonallocDefault == "fatal"

\* The switch of InputSection<ARM32>::apply_reloc_nonalloc.
ARM_NonallocSwitch(rel) ==
  CASE rel.r_type = "R_ARM_ABS32" ->
         Patched("written",
                 IF rel.dead THEN Word32(rel.tomb)
                 ELSE Word32(NonallocS(rel) + NonallocA(rel)), "none", "")
    [] rel.r_type = "R_ARM_TLS_LDO32" ->
         Patched("written",
                 IF rel.dead THEN Word32(rel.tomb)
                 ELSE Word32(NonallocS(rel) + NonallocA(rel) - rel.tls_begin),
                 "none", "")
    [] OTHER ->
         Patched("invalid", <<>>, NonallocDefault,
                 "invalid relocation for non-allocated sections")

\* The switch of InputSection<PPC64V2>::apply_reloc_nonalloc.  The bound
\* 1LL << 32 of the range check is beyond the integers of the model checker:
\* val is in [0, 2^32) exactly when val / 4, rounded down, is in [0, 2^30).
PPC_NonallocSwitch(rel) ==
  CASE rel.r_type = "R_PPC64_ADDR64" ->
         Patched("written",
                 IF rel.dead THEN ToU64(rel.tomb)
                 ELSE ToU64(NonallocS(rel) + NonallocA(rel)), "none", "")
    [] rel.r_type = "R_PPC64_ADDR32" ->
         LET val == NonallocS(rel) + NonallocA(rel)
             sev == check(val \div 4, 0, 2^30)
         IN Patched("written", Word32(val), sev,
                    IF sev = "none" THEN "" ELSE "out of range")
    [] rel.r_type = "R_PPC64_DTPREL64" ->
         Patched("written",
                 ToU64(NonallocS(rel) + NonallocA(rel) - rel.tls_begin
                         - rel.tls_dtv_offset), "none", "")
    [] OTHER ->
         Patched("invalid", <<>>, NonallocDefault, "apply_reloc_nonalloc")

\* One iteration of the loop of apply_reloc_nonalloc, either back-end.
ApplyNonallocReloc(a, rel) ==
  IF rel.r_type = "R_NONE" THEN Patched("skip", <<>>, "none", "")
  ELSE IF ~rel.has_file THEN Patched("undef", <<>>, "error", "undefined symbol")
  ELSE IF a = "ARM32" THEN ARM_NonallocSwitch(rel)
  ELSE PPC_NonallocSwitch(rel)

NonallocRelocation(k, has_file, frag, S, A, dead, tomb) ==
  [r_type |-> k, has_file |-> has_file, frag |-> frag, S |-> S, A |-> A,
   frag_addr |-> 8192, frag_addend |-> 4, dead |-> dead, tomb |-> tomb,
   tls_begin |-> 2048, tls_dtv_offset |-> 32768]

NonallocKindSample(a) ==
  IF a = "ARM32"
  THEN {"R_NONE", "R_ARM_ABS32", "R_ARM_TLS_LDO32", "R_ARM_REL32", "R_ARM_CALL"}
  ELSE {"R_NONE", "R_PPC64_ADDR64", "R_PPC64_ADDR32", "R_PPC64_DTPREL64",
        "R_PPC64_REL24", "R_PPC64_REL64"}

\* A symbol without a file has no fragment and no address; a live symbol has
\* no tombstone.
NonallocSample(a) ==
  {NonallocRelocation(k, TRUE, frag, 4096, A, dead, IF dead THEN tomb ELSE 0)
     : <<k, frag, A, dead, tomb>> \in
         NonallocKindSample(a) \X BOOLEAN \X {8, -8192} \X BOOLEAN \X {0, 1}}
  \cup {NonallocRelocation(k, FALSE, FALSE, 0, A, FALSE, 0)
          : <<k, A>> \in NonallocKindSample(a) \X {8}}

InitNonalloc ==
  /\ pass = "nonalloc"
  /\ arch \in Archs
  /\ ai = 1
  /\ last = NoReloc
  /\ trampoline_idx = 0
  /\ IdleScan /\ IdleExidx /\ IdleHaLo /\ IdleOpts /\ IdleThunk

ApplyNonalloc ==
  /\ pass = "nonalloc" /\ ~fatal
  /\ ai <= NumRels
  /\ \E rel \in NonallocSample(arch) :
       LET out == ApplyNonallocReloc(arch, rel)
       IN /\ last' = [index |-> ai, rel |-> rel, out |-> out]
          /\ fatal' = (out.sev = "fatal")
          /\ errors' = IF out.sev = "none" THEN errors ELSE errors \cup {out.msg}
          /\ ai' = IF out.sev = "fatal" THEN ai ELSE ai + 1
  /\ UNCHANGED trampoline_idx
  /\ UNCHANGED <<pass, arch, output_kind, scanvars, exvars, halovars, optvars, thunkvars>>

(***************************************************************************)
(* sort_arm_exidx.  An Entry is {ul32 addr; ul32 val}; a ul32 is held as   *)
(* the pair of its halfwords, so that every operation is modulo 2^32.      *)
(***************************************************************************)
\* sizeof(Entry)
SizeofEntry == 8

\* sign_extend(x, 30) of a 32-bit word.  2^31 is beyond the integers of the
\* model checker, so the low 31 bits are taken on the halfwords.
sign_extend30(w) ==
  LET m == (w[2] % 32768) * 65536 + w[1]
  IN IF m >= 2^30 THEN (m - 2^30) - 2^30 ELSE m

\* The integer with the bit pattern of the word w (two's complement).
AsInt32(w) == (IF w[2] >= 32768 THEN w[2] - 65536 ELSE w[2]) * 65536 + w[1]

\* 0x7fffffff & w
Mask31(w) == <<w[1], w[2] % 32768>>

\* a < b on ul32: the comparison of two unsigned 32-bit integers
U32Less(a, b) == a[2] < b[2] \/ (a[2] = b[2] /\ a[1] < b[1])

EXIDX_CANTUNWIND == <<1, 0>>

\* a + b modulo 2^32 on halfword pairs
Add32(a, b) ==
  LET s1 == a[1] + b[1]
  IN <<s1 % 65536, (a[2] + b[2] + s1 \div 65536) % 65536>>

\* auto is_relative = [](u32 val)
is_relative(val) == val # EXIDX_CANTUNWIND /\ val[2] < 32768

\* The body of the first parallel_for, for entry i (counted from 0).
ExToSectionRelative(e, i) ==
  LET offset == SizeofEntry * i
  IN [addr |-> Word32(sign_extend30(e.addr) + offset),
      val |-> IF is_relative(e.val)
              THEN Mask31(Add32(e.val, Word32(offset))) ELSE e.val]

\* The body of the second parallel_for, for entry i (counted from 0).
ExToSelfRelative(e, i) ==
  LET offset == SizeofEntry * i
  IN [addr |-> Mask31(Add32(e.addr, Word32(-offset))),
      val |-> IF is_relative(e.val)
              THEN Mask31(Add32(e.val, Word32(-offset))) ELSE e.val]

\* The comparator handed to tbb::parallel_sort.
ExLess(a, b) == U32Less(a.addr, b.addr)

\* What tbb::parallel_sort may leave with the comparator ExLess: any
\* arrangement of t in which no entry is followed by one that the comparator
\* puts before it.
parallel_sort(t) ==
  {[i \in DOMAIN t |-> t[p[i]]] :
     p \in {q \in [DOMAIN t -> DOMAIN t] :
              /\ \A i \in DOMAIN t : \E j \in DOMAIN t : q[j] = i
              /\ \A i \in DOMAIN t : \A j \in DOMAIN t :
                   i < j => ~ExLess(t[q[j]], t[q[i]])}}

\* Entries of the table.
NumEntries == 2

\* The input table: entry i (counted from 0) covers the function at the
\* section-relative address F, and its value is CANTUNWIND, a compact record
\* (0x80b0b0b0) or the self-relative address of a record: one in .ARM.extab
\* ("extab", 256 bytes from the start of the table) or one whose address
\* counted from the start of the table is 1 ("at1").
ExEntry(F, v, i) ==
  [addr |-> Mask31(Word32(F - SizeofEntry * i)),
   val |-> CASE v = "cantunwind" -> EXIDX_CANTUNWIND
             [] v = "compact" -> <<45232, 32944>>
             [] v = "at1" -> Mask31(Word32(1 - SizeofEntry * i))
             [] OTHER -> Mask31(Word32(256 - SizeofEntry * i))]

ExFuncSample == {-16, -8, 8, 24}

ExValSample == {"cantunwind", "compact", "extab", "at1"}

InitExidx ==
  /\ pass = "exidx"
  /\ arch = "ARM32"
  /\ ex_in \in {[i \in 1..NumEntries |-> ExEntry(c[i][1], c[i][2], i - 1)] :
                  c \in [1..NumEntries -> ExFuncSample \X ExValSample]}
  /\ ex_tab = ex_in
  /\ ex_osec \in BOOLEAN
  /\ ex_size \in {SizeofEntry * NumEntries, SizeofEntry * NumEntries + 4}
  /\ ex_phase = "input"
  /\ IdleScan /\ IdleApply /\ IdleHaLo /\ IdleOpts /\ IdleThunk

\* A size test that lets every size through.
ExSizeAny(size) == TRUE

\* !(osec->shdr.sh_size % sizeof(Entry))
ExSizeIsValid(size) == size % SizeofEntry = 0

\* void sort_arm_exidx(Context<E> &ctx)
sort_arm_exidx ==
  /\ pass = "exidx" /\ ~fatal
  /\ ex_phase = "input"
  /\ IF ~ex_osec
     THEN /\ ex_phase' = "done"
          /\ UNCHANGED <<ex_tab, fatal, errors>>
     ELSE IF ~ExSizeIsValid(ex_size)
     THEN /\ fatal' = TRUE
          /\ errors' = errors \cup {"invalid .ARM.exidx section size"}
          /\ UNCHANGED <<ex_tab, ex_phase>>
     ELSE /\ \E sorted \in parallel_sort([i \in 1..NumEntries |->
                                            ExToSectionRelative(ex_tab[i], i - 1)]) :
               ex_tab' = [i \in 1..NumEntries |-> ExToSelfRelative(sorted[i], i - 1)]
          /\ ex_phase' = "done"
          /\ UNCHANGED <<fatal, errors>>
  /\ UNCHANGED <<ex_in, ex_osec, ex_size>>
  /\ UNCHANGED <<pass, arch, output_kind, scanvars, applyvars, halovars, optvars, thunkvars>>

\* The section-relative address of the function that entry i (counted from 1)
\* of table t covers.
ExFuncAddr(t, i) == sign_extend30(t[i].addr) + SizeofEntry * (i - 1)

(***************************************************************************)
(* The PPC64 helpers lo and ha on arbitrary 64-bit values.                 *)
(***************************************************************************)
\* Values of a 16-bit limb: the ends of its range and the two values around
\* the rounding threshold 0x8000.
LimbSample == {0, 32767, 32768, 65535}

NoHalves == <<>>

InitHaLo ==
  /\ pass = "halo"
  /\ arch = "PPC64V2"
  /\ hx \in LimbSample \X LimbSample \X LimbSample \X LimbSample
  /\ hres = NoHalves
  /\ IdleScan /\ IdleApply /\ IdleExidx /\ IdleOpts /\ IdleThunk

\* The linker computes the two halves of x for a *_HA / *_LO pair.
SplitHaLo ==
  /\ pass = "halo"
  /\ hres = NoHalves
  /\ hres' = <<ha(hx), lo(hx)>>
  /\ UNCHANGED hx
  /\ UNCHANGED <<pass, arch, output_kind, fatal, errors, scanvars, applyvars, exvars,
                 optvars, thunkvars>>

\* sign-extension of a 16-bit immediate to 64 bits, as the instruction that
\* consumes the low half does
SignExtend16(l) == IF l >= 32768 THEN <<l, 65535, 65535, 65535>> ELSE <<l, 0, 0, 0>>

\* (h << 16) + sign_extend_16(l) modulo 2^64
Recombine(h, l) == Add64(Shl16(h), SignExtend16(l[1]))

(***************************************************************************)
(* The passes together.                                                    *)
(***************************************************************************)
\* ---------------------------------------------------------------------------
\* RangeExtensionThunk::copy_buf.  A slot is a sequence of 32-bit words, each
\* a pair of halfwords, low halfword first.

\* -x modulo 2^64
Neg64(x) ==
  Add64(<<65535 - x[1], 65535 - x[2], 65535 - x[3], 65535 - x[4]>>, <<1, 0, 0, 0>>)

\* a - b modulo 2^64
Sub64(a, b) == Add64(a, Neg64(b))

\* static u64 higha(u64 x) { return ((x + 0x8000) >> 16) & 0xffff; }
higha(x) == ha(x)[1]

\* E::thunk_hdr_size and E::thunk_size of ARM32
ARM_ThunkHdrSize == 12
ARM_ThunkSize == 20

\* The entry of an ARM slot: mov ip, pc; bx ip; ldr ip, 2f; add ip, ip, pc;
\* bx ip; .word 0
ARM_ThunkEntry ==
  <<<<18172, 18272>>, <<49156, 58783>>, <<49167, 57484>>, <<65308, 57647>>, <<0, 0>>>>

\* The address of slot i of an ARM thunk at address base.
ARM_SlotAddr(base, i) == base + ARM_ThunkHdrSize + i * ARM_ThunkSize

\* The literal of an ARM slot: S - P - 16.
ARM_SlotLiteral(S, P) == Word32(S - P - 16)

\* The ARM loop body of copy_buf for one slot.
ARM_CopySlot(sym) ==
  [ARM_ThunkEntry EXCEPT ![5] = ARM_SlotLiteral(sym.S, ARM_SlotAddr(sym.base, sym.i))]

\* plt_thunk: std r2, 24(r1); addis r12, r2, 0; ld r12, 0(r12); mtctr r12; bctr
PPC_PltThunk ==
  <<<<24, 63553>>, <<0, 15746>>, <<0, 59788>>, <<934, 32137>>, <<1056, 20096>>>>

\* local_thunk: addis r12, r2, 0; addi r12, r12, 0; mtctr r12; bctr; nop
PPC_LocalThunk ==
  <<<<0, 15746>>, <<0, 14732>>, <<934, 32137>>, <<1056, 20096>>, <<0, 24576>>>>

\* The 64-bit local entry offset of the slot's symbol.
LocalEntry64(ple) ==
  LET o == get_local_entry_offset(ple) IN <<IF o < 0 THEN 0 ELSE o, 0, 0, 0>>

\* The PPC64 loop body of copy_buf for one slot.
PPC_CopySlot(sym) ==
  IF sym.has_plt
  THEN LET got == IF sym.has_got THEN sym.got_addr ELSE sym.gotplt_addr
           val == Sub64(got, sym.TOC)
       IN [PPC_PltThunk EXCEPT ![2] = <<BitOr(@[1], higha(val)), @[2]>>,
                               ![3] = <<BitOr(@[1], lo(val)[1]), @[2]>>]
  ELSE LET val == Sub64(Add64(sym.S, LocalEntry64(sym.local_entry)), sym.TOC)
       IN [PPC_LocalThunk EXCEPT ![1] = <<BitOr(@[1], higha(val)), @[2]>>,
                                 ![2] = <<BitOr(@[1], lo(val)[1]), @[2]>>]

\* The symbols and places of the ARM slots.
ARM_ThunkSample ==
  {[S |-> S, base |-> base, i |-> i]
     : <<S, base, i>> \in
         {4096, 4097, 65536 + 2^25, 65537 + 2^25, 2^30 + 8} \X {65536, 2^30} \X {0, 1}}

\* The symbols of the PPC64 slots.  The TOC pointer is .got + 0x8000 and the
\* .got and .got.plt entries are near it; the functions are anywhere.
PPC_ThunkSample ==
  {[S |-> S, local_entry |-> ple, has_plt |-> plt, has_got |-> got,
    got_addr |-> <<8, 1, 0, 0>>, gotplt_addr |-> <<65528, 3, 0, 0>>,
    TOC |-> <<32768, 1, 0, 0>>]
     : <<S, ple, plt, got>> \in
         {<<4096, 0, 0, 0>>, <<0, 32768, 0, 0>>, <<32768, 32769, 0, 0>>,
          <<0, 32770, 0, 0>>, <<0, 0, 1, 0>>}
           \X {0, 3, 7} \X BOOLEAN \X BOOLEAN}

InitThunk ==
  /\ pass = "thunk"
  /\ arch \in Archs
  /\ th_sym \in (IF arch = "ARM32" THEN ARM_ThunkSample ELSE PPC_ThunkSample)
  /\ th_buf = <<>>
  /\ IdleScan /\ IdleApply /\ IdleExidx /\ IdleHaLo /\ IdleOpts

\* copy_buf writes the slot.  On PPC64 a symbol without a PLT entry whose
\* local entry offset is the reserved 7 ends the link.
copy_buf ==
  /\ pass = "thunk" /\ ~fatal
  /\ th_buf = <<>>
  /\ IF arch = "PPC64V2" /\ ~th_sym.has_plt /\ th_sym.local_entry = 7
     THEN /\ fatal' = TRUE
          /\ errors' = errors \cup {"local entry offset 7 is reserved"}
          /\ UNCHANGED th_buf
     ELSE /\ th_buf' = IF arch = "ARM32" THEN ARM_CopySlot(th_sym)
                       ELSE PPC_CopySlot(th_sym)
          /\ UNCHANGED <<fatal, errors>>
  /\ UNCHANGED th_sym
  /\ UNCHANGED <<pass, arch, output_kind, scanvars, applyvars, exvars, halovars, optvars>>

\* ---------------------------------------------------------------------------
\* The command line.  An argument is a sequence of characters.  The linker
\* goes through the arguments from left to right; an argument that starts
\* with a dash and is no option it knows ends the link.

NumArgs == 2

\* The -z keywords and the flags the linker knows, cut down to one of each.
ZFlags == {<<"n">>}
KnownFlags == {<<"-", "s">>}

DashZ == <<"-", "z">>

\* The arguments the command lines are made of.
ArgSample ==
  {DashZ, <<"-", "z", "n">>, <<"-", "z", "x">>, <<"n">>, <<"x">>,
   <<"-", "s">>, <<"-", "a", "b">>, <<"-", "-", "a", "b">>}

StartsWithDashZ(a) == Len(a) > 2 /\ SubSeq(a, 1, 2) = DashZ

\* The message names only the first character of the option.
UnknownOptionInitial(tok) == <<"unknown command line option: ">> \o SubSeq(tok, 1, 1)

\* The message of an unknown option.
UnknownOption(tok) == <<"unknown command line option: ">> \o tok

\* What the parser makes of the argument at position i: how many arguments
\* it takes, or the option it does not know.
ParseOne(args, i) ==
  LET a == args[i]
  IN IF a = DashZ /\ i < Len(args)
     THEN IF args[i + 1] \in ZFlags
          THEN [take |-> 2, unknown |-> <<>>]
          ELSE [take |-> 0, unknown |-> DashZ \o <<" ">> \o args[i + 1]]
     ELSE IF StartsWithDashZ(a)
     THEN IF SubSeq(a, 3, Len(a)) \in ZFlags
          THEN [take |-> 1, unknown |-> <<>>]
          ELSE [take |-> 0, unknown |-> a]
     ELSE IF a[1] = "-"
     THEN IF a \in KnownFlags
          THEN [take |-> 1, unknown |-> <<>>]
          ELSE [take |-> 0, unknown |-> a]
     ELSE [take |-> 1, unknown |-> <<>>]

InitOpts ==
  /\ pass = "opts"
  /\ arch = "ARM32"
  /\ output_kind = "PDE"
  /\ fatal = FALSE
  /\ errors = {}
  /\ argv \in UNION {[1..n -> ArgSample] : n \in 1..NumArgs}
  /\ argv[Len(argv)] # DashZ
  /\ oi = 1
  /\ message = <<>>
  /\ output_file = FALSE
  /\ IdleScan /\ IdleApply /\ IdleExidx /\ IdleHaLo /\ IdleThunk

\* The parser takes the next argument.
ParseArg ==
  /\ pass = "opts" /\ ~fatal
  /\ oi \in 1..Len(argv)
  /\ LET p == ParseOne(argv, oi)
     IN IF p.take = 0
        THEN /\ fatal' = TRUE
             /\ message' = UnknownOption(p.unknown)
             /\ UNCHANGED oi
        ELSE /\ oi' = oi + p.take
             /\ UNCHANGED <<fatal, message>>
  /\ UNCHANGED <<argv, output_file>>
  /\ UNCHANGED <<pass, arch, output_kind, errors, scanvars, applyvars, exvars, halovars,
                 thunkvars>>

\* The link that follows a command line the parser accepted.
WriteOutput ==
  /\ pass = "opts" /\ ~fatal
  /\ oi = Len(argv) + 1
  /\ ~output_file
  /\ output_file' = TRUE
  /\ UNCHANGED <<argv, oi, message>>
  /\ UNCHANGED <<pass, arch, output_kind, fatal, errors, scanvars, applyvars, exvars,
                 halovars, thunkvars>>

Init ==
  \/ InitScan \/ InitAlloc \/ InitNonalloc \/ InitExidx \/ InitHaLo \/ InitOpts
  \/ InitThunk

Next ==
  \/ NextScan \/ ApplyAlloc \/ ApplyNonalloc \/ sort_arm_exidx \/ SplitHaLo
  \/ ParseArg \/ WriteOutput \/ copy_buf

Spec == Init /\ [][Next]_vars

(***************************************************************************)
(* The claims.                                                             *)
(***************************************************************************)

Slice(sec) ==
  {b \in 0..(Cardinality(Sections) * NumRels * SizeofElfRel(arch)) :
     /\ reldyn_offset[sec] <= b
     /\ b < reldyn_offset[sec] + ndyn[sec] * SizeofElfRel(arch)}

\* C2: when the sections of a file are scanned concurrently, each section's
\* reldyn_offset is the value the file's counter had just before the section's
\* own increments, and the slices of the sections of a file are pairwise
\* disjoint and together cover exactly num_dynrel entries.
C2_SlicesDisjointAndCover ==
  (pass = "scan" /\ AllScanned) =>
     /\ \A sec \in Sections : ndyn[sec] > 0 => reldyn_offset[sec] = pre_own[sec]
     /\ \A s1 \in Sections : \A s2 \in Sections \ {s1} :
          FileOf(s1) = FileOf(s2) => Slice(s1) \cap Slice(s2) = {}
     /\ \A f \in Files :
          UNION {Slice(sec) : sec \in {x \in Sections : FileOf(x) = f}}
            = {b \in 0..(Cardinality(Sections) * NumRels * SizeofElfRel(arch)) :
                 b < num_dynrel[f] * SizeofElfRel(arch)}

\* C6: two runs over the same input, under any two schedules, end with the
\* same symbol flags, the same reldyn_offset of every section and the same
\* dynamic-relocation stream.
C6_Deterministic ==
  (pass = "scan" /\ run = 2 /\ RunComplete) => prev = RunResult

\* The relocation applied last, in the pass and on the back-end given.
LastIs(p, a) == pass = p /\ arch = a /\ last.index > 0

\* C3: a call or jump relocation that the applier routes through a thunk has a
\* range_extn entry, and the displacement to the thunk that is encoded into
\* the branch is within the reach of a direct branch of the back-end (ARM32:
\* is_jump_reachable; PPC64 REL24: [-2^25, 2^25)).
C3_ThunkDisplacementReachable ==
  (pass = "alloc" /\ last.index > 0 /\ last.out.how = "thunk") =>
     /\ last.rel.thunk # -1
     /\ Reachable(arch, last.out.val)

\* The branch found at the site after the relocation was applied: its opcode
\* and its destination address as the processor computes it.  An ARM branch
\* adds its displacement to the site + 8, a Thumb BL to the site + 4, a Thumb
\* BLX to the site + 4 rounded down to a multiple of 4.
ArmBranch(insn, P) ==
  LET top8 == insn[2] \div 256
      imm24 == (insn[2] % 256) * 65536 + insn[1]
  IN [op |-> IF top8 = 235 THEN "BL" ELSE IF top8 \div 2 = 125 THEN "BLX" ELSE "?",
      dest |-> P + 8 + sign_extend(imm24 * 4 + (IF top8 = 251 THEN 2 ELSE 0), 25)]

ThumbBranch(insn, P) ==
  LET sign == bit(insn[1], 10)
      I1 == 1 - BitXor(bit(insn[2], 13), sign)
      I2 == 1 - BitXor(bit(insn[2], 11), sign)
      imm == sign_extend(sign * 2^24 + I1 * 2^23 + I2 * 2^22
                           + (insn[1] % 1024) * 4096 + (insn[2] % 2048) * 2, 24)
      wide == insn[1] \div 2048 = 30 /\ insn[2] \div 16384 = 3
      op == IF ~wide THEN "?" ELSE IF bit(insn[2], 12) = 1 THEN "BL" ELSE "BLX"
  IN [op |-> op,
      dest |-> IF op = "BLX" THEN ((P + 4) \div 4) * 4 + imm ELSE P + 4 + imm]

\* a and b are the same address as far as a displacement field of the given
\* width can tell.
SameModulo(a, b, width) == (a - b) % (2^width) = 0

C5_ExidxSortedByFunction ==
  (pass = "exidx" /\ ex_osec /\ ex_phase = "done") =>
     \A i \in 1..NumEntries : \A j \in 1..NumEntries :
        i < j => ExFuncAddr(ex_tab, i) <= ExFuncAddr(ex_tab, j)

\* C7: the halves ha(x) and lo(x) give x back as
\* (ha(x) << 16) + sign_extend_16(lo(x)) modulo 2^64, for every 64-bit x.
C7_HaLoRoundTrip ==
  (pass = "halo" /\ hres # NoHalves) => Recombine(hres[1], hres[2]) = hx

\* C7's case: an x for which x + 0x8000 wraps around 2^64.
C7_Witness ==
  /\ pass = "halo" /\ hres # NoHalves
  /\ hx = <<32768, 65535, 65535, 65535>>
  /\ hres[1] = <<0, 0, 0, 0>>

\* The relocation applied last is of a kind the switch does not know.
LastUnknown == pass = "alloc" /\ last.index > 0 /\ last.out.how = "unknown"

\* C8: an unknown relocation kind met by scan_relocations or by
\* apply_reloc_alloc is fatal on either back-end, and the section's loop stops
\* at that relocation.
C8_UnknownRelocationIsFatal ==
  /\ (pass = "scan" /\ unknown_at # <<>>) =>
        fatal /\ si[unknown_at[1]] = unknown_at[2]
  /\ LastUnknown => fatal /\ ai = last.index

\* The value a PPC64 relocation hands to `check`, and whether it is in range.
CheckedOutOfRange ==
  \/ /\ LastIs("alloc", "PPC64V2")
     /\ last.rel.r_type = "R_PPC64_REL24"
     /\ last.out.how \in {"direct", "thunk"}
     /\ ~Reachable("PPC64V2", last.out.val)
  \/ /\ LastIs("nonalloc", "PPC64V2")
     /\ last.rel.r_type = "R_PPC64_ADDR32"
     /\ last.rel.has_file
     /\ NonallocS(last.rel) + NonallocA(last.rel) < 0

\* C9: a relocation whose value is out of range after thunk routing is fatal,
\* and the truncated value is not written to the output.
C9_OutOfRangeIsFatal ==
  CheckedOutOfRange =>
     /\ fatal /\ ai = last.index
     /\ "out of range" \in errors
     /\ IF pass = "alloc" THEN last.out.insn = last.rel.insn
        ELSE last.out.bytes = <<>>

NonallocAccepted(a) ==
  IF a = "ARM32" THEN {"R_ARM_ABS32", "R_ARM_TLS_LDO32"}
  ELSE {"R_PPC64_ADDR64", "R_PPC64_ADDR32", "R_PPC64_DTPREL64"}

\* The relocation applied last in a non-allocated section is of a kind other
\* than R_NONE and the accepted ones.
LastNotAccepted ==
  /\ pass = "nonalloc" /\ last.index > 0
  /\ last.rel.r_type \notin NonallocAccepted(arch) \cup {"R_NONE"}

\* C10 as stated: in a non-allocated section every kind other than R_NONE and
\* the accepted ones is fatal and patches no bytes.
C10_OtherKindsAreFatal ==
  LastNotAccepted => fatal /\ ai = last.index /\ last.out.bytes = <<>>

\* C10 as amended: in a non-allocated section a relocation of a kind other
\* than R_NONE and the accepted ones patches no bytes; it is fatal when its
\* symbol has an owning file, and is recorded as an undefined symbol and
\* skipped when it has none.  The accepted kinds against a symbol with a file
\* are patched.
C10_OtherKindsFatalOrUndefined ==
  /\ LastNotAccepted =>
       /\ last.out.bytes = <<>>
       /\ IF last.rel.has_file
          THEN fatal /\ ai = last.index
          ELSE ~fatal /\ ai = last.index + 1 /\ "undefined symbol" \in errors
  /\ (/\ pass = "nonalloc" /\ last.index > 0
      /\ last.rel.r_type \in NonallocAccepted(arch)
      /\ last.rel.has_file)
     => last.out.how = "written" /\ last.out.bytes # <<>> /\ ~fatal

\* C10's case: a relocation of a kind that is not accepted, against a symbol
\* with an owning file, has stopped the link.
C10_Witness ==
  /\ LastNotAccepted
  /\ last.rel.has_file
  /\ fatal
  /\ last.index = NumRels

\* C11: sort_arm_exidx is fatal when the size of the .ARM.exidx output section
\* is not a multiple of the entry size, and then leaves every entry of the
\* table as it was; when there is no such output section the call changes
\* nothing and raises nothing.
C11_ExidxBadSizeOrAbsent ==
  [][(pass = "exidx" /\ (~ex_osec \/ ex_size % SizeofEntry # 0)) =>
       /\ ex_tab' = ex_tab
       /\ IF ex_osec
          THEN fatal' /\ "invalid .ARM.exidx section size" \in errors'
          ELSE ~fatal' /\ errors' = errors]_vars

\* C11's case: the call has aborted on a table of odd size whose entries are
\* not in the order of their functions, and the table is as it was.
C11_Witness ==
  /\ pass = "exidx" /\ ex_osec /\ fatal
  /\ ex_size % SizeofEntry # 0
  /\ ex_tab = ex_in
  /\ ExFuncAddr(ex_tab, 1) > ExFuncAddr(ex_tab, 2)

\* The canonical NOP of the instruction set of the site.
CanonicalNop(k) == IF SiteIsThumb(k) THEN <<62383, 32768>> ELSE <<61440, 58144>>

LastRel24 ==
  /\ LastIs("alloc", "PPC64V2")
  /\ last.rel.r_type = "R_PPC64_REL24"
  /\ last.out.how \in {"direct", "thunk"}

PPC_BranchField(insn) ==
  sign_extend((insn[2] % 1024) * 65536 + (insn[1] - (insn[1] % 4)), 25)

\* C14: a PPC64 REL24 whose callee has a PLT entry branches to its thunk
\* slot whether or not the callee is within reach; it branches to the callee
\* itself only when the callee has no PLT entry and the displacement fits
\* the signed 26-bit field.
C14_PltCallGoesThroughThunk ==
  LastRel24 =>
    LET direct == last.rel.S + last.rel.A - last.rel.P
                    + get_local_entry_offset(last.rel.local_entry)
        fits == -(2^25) <= direct /\ direct < 2^25
    IN /\ last.rel.has_plt =>
            /\ last.out.how = "thunk"
            /\ last.rel.thunk # -1
            /\ PPC_BranchField(last.out.insn)
                 = last.rel.thunk + last.rel.A - last.rel.P
       /\ last.out.how = "direct" =>
            /\ ~last.rel.has_plt /\ fits
            /\ PPC_BranchField(last.out.insn) = direct
       /\ (~last.rel.has_plt /\ fits) => last.out.how = "direct"

\* C14's case: a callee with a PLT entry that is within reach of the site is
\* still reached through the slot.
C14_Witness ==
  /\ LastRel24
  /\ last.rel.has_plt
  /\ Reachable("PPC64V2", last.rel.S + last.rel.A - last.rel.P)
  /\ last.out.how = "thunk"
  /\ PPC_BranchField(last.out.insn) # last.rel.S + last.rel.A - last.rel.P

\* The relocations against the undefined symbol that the check of C15 goes
\* through: those of the sample, one of a kind the scanner does not know and
\* a call.
UndefRelocations(a) ==
  {r \in ScanSample(a) : r.r_sym = "undef" /\ r.r_type # "R_NONE"}
    \cup (IF a = "ARM32"
          THEN {ScanRelocation("R_ARM_THM_JUMP8", "undef", "NONE"),
                ScanRelocation("R_ARM_CALL", "undef", "NONE")}
          ELSE {ScanRelocation("R_PPC64_ADDR16", "undef", "NONE"),
                ScanRelocation("R_PPC64_PLT16_HA", "undef", "NONE")})

\* C15: a relocation against a symbol without an owning file is recorded as
\* an undefined-symbol error and skipped: no flag is set on the symbol, no
\* dynamic relocation is reserved, no other diagnostic is raised, and the
\* scan goes on with the next relocation.
C15_UndefinedIsRecordedAndSkipped ==
  [][pass = "scan" =>
       /\ flags'["undef"] = {}
       /\ \A rel \in UndefRelocations(arch), sec \in Sections :
            LET it == ScanIteration(arch, rel, SecName(sec), output_kind,
                                    relax_tlsdesc(output_kind, rel.r_sym))
            IN /\ it.ifunc = {}
               /\ it.sw = [NoEffect EXCEPT !.diag = "undef"]
       /\ ("undefined symbol" \notin errors /\ "undefined symbol" \in errors') =>
            /\ errors' = errors \cup {"undefined symbol"}
            /\ flags' = flags
            /\ num_dynrel' = num_dynrel
            /\ ndyn' = ndyn
            /\ needs_tlsld' = needs_tlsld
            /\ ~fatal'
            /\ \E sec \in Sections : si' = [si EXCEPT ![sec] = @ + 1]]_vars

\* C15's case: a scan that met an undefined symbol went on to the end of
\* both sections with that one error.
C15_Witness ==
  /\ pass = "scan" /\ AllScanned /\ ~fatal
  /\ errors = {"undefined symbol"}
  /\ flags["undef"] = {}
  /\ \E f \in Files : num_dynrel[f] > 0

\* The options of a command line that the linker does not know, each as the
\* text that names it, in the order of the command line: -zX and -abc and
\* --abc are one argument, -z X is two.
RECURSIVE UnknownTokens(_, _)
UnknownTokens(args, i) ==
  IF i > Len(args) THEN <<>>
  ELSE LET a == args[i]
       IN IF a = DashZ /\ i < Len(args)
          THEN (IF args[i + 1] = <<"n">> THEN <<>>
                ELSE <<DashZ \o <<" ">> \o args[i + 1]>>)
                 \o UnknownTokens(args, i + 2)
          ELSE (IF a[1] # "-" \/ a \in {<<"-", "z", "n">>, <<"-", "s">>}
                THEN <<>> ELSE <<a>>)
                 \o UnknownTokens(args, i + 1)

\* The link is over: it was stopped, or it wrote its output.
LinkOver == pass = "opts" /\ (fatal \/ output_file)

C17_JumpDirectOrThunk ==
  (/\ LastIs("alloc", "ARM32")
   /\ last.rel.r_type \in {"R_ARM_JUMP24", "R_ARM_THM_JUMP24"}
   /\ ~last.rel.weak)
  => LET rel == last.rel
         thumb_site == SiteIsThumb(rel.r_type)
         reach == is_jump_reachable(rel.S + rel.A - rel.P)
         same_mode == (T(rel) = 1) = thumb_site
         dest == IF thumb_site THEN ThumbBranch(last.out.insn, rel.P).dest
                 ELSE ArmBranch(last.out.insn, rel.P).dest
     IN /\ last.out.how = IF reach /\ same_mode THEN "direct" ELSE "thunk"
        /\ last.out.how = "direct" => dest = rel.S - T(rel)
        /\ last.out.how = "thunk" =>
             /\ rel.thunk # -1
             /\ dest = rel.thunk + (IF thumb_site THEN 0 ELSE 4)
        /\ IF thumb_site
           THEN /\ BitAnd(last.out.insn[1], 63488) = BitAnd(rel.insn[1], 63488)
                /\ BitAnd(last.out.insn[2], 53248) = BitAnd(rel.insn[2], 53248)
           ELSE last.out.insn[2] \div 256 = rel.insn[2] \div 256

\* C17's case: a conditional ARM branch to Thumb code within reach went to
\* the slot and kept its condition.
C17_Witness ==
  /\ LastIs("alloc", "ARM32")
  /\ last.rel.r_type = "R_ARM_JUMP24"
  /\ last.rel.insn = <<65534, 2815>>
  /\ T(last.rel) = 1
  /\ is_jump_reachable(last.rel.S + last.rel.A - last.rel.P)
  /\ last.out.how = "thunk"
  /\ last.out.insn[2] \div 256 = 10
  /\ ArmBranch(last.out.insn, last.rel.P).dest = last.rel.thunk + 4

\* The entries of the stream that the scanner reserved for sec.
ReservedEntries(sec) ==
  {e \in DOMAIN reldyn :
     e >= DynrelStart(sec) /\ e < DynrelStart(sec) + ndyn[sec]}

\* C18: once the applier has gone through a section, it has written as many
\* dynamic relocations, from the section's offset on, as the scanner reserved
\* for the section; every reserved entry is written and no entry is written
\* past the reserved ones.
C18_ScanAndApplyAgree ==
  (pass = "scan" /\ ~fatal /\ AllScanned) =>
    \A sec \in emitted :
      /\ DynrelWritten(arch, input[sec], SecName(sec), output_kind) = ndyn[sec]
      /\ \A e \in ReservedEntries(sec) : reldyn[e] # NoEntry
      /\ \A e \in DOMAIN reldyn : reldyn[e] = sec => e \in ReservedEntries(sec)

\* The tombstone in the width of the field that kind k patches.
TombstoneBytes(k, tomb) ==
  IF k \in {"R_PPC64_ADDR64", "R_PPC64_DTPREL64"} THEN ToU64(tomb) ELSE Word32(tomb)

\* C19: whenever get_tombstone returns a value for a relocation of a kind
\* that apply_reloc_nonalloc supports, the bytes written at the site are that
\* value; S + A, or the TLS offset, is written only when it returns none.
C19_TombstoneReplacesBytes ==
  (/\ pass = "nonalloc" /\ last.index > 0
   /\ last.rel.r_type \in NonallocAccepted(arch)
   /\ last.rel.has_file)
  => /\ last.out.how = "written"
     /\ last.rel.dead =>
          last.out.bytes = TombstoneBytes(last.rel.r_type, last.rel.tomb)
     /\ (~last.rel.dead /\ last.rel.r_type \in {"R_ARM_ABS32", "R_PPC64_ADDR64"}) =>
          last.out.bytes = TombstoneBytes(last.rel.r_type,
                                          NonallocS(last.rel) + NonallocA(last.rel))

\* C20: an ARM branch that goes through a thunk enters its slot at offset 0
\* from a Thumb site (R_ARM_THM_CALL, R_ARM_THM_JUMP24) and at offset 4 from
\* an ARM site (R_ARM_CALL, R_ARM_JUMP24).
C20_ThunkEntryBySiteMode ==
  (/\ LastIs("alloc", "ARM32")
   /\ last.rel.r_type \in ARM_BranchKinds
   /\ last.out.how = "thunk")
  => LET rel == last.rel
         dest == IF SiteIsThumb(rel.r_type)
                 THEN ThumbBranch(last.out.insn, rel.P).dest
                 ELSE ArmBranch(last.out.insn, rel.P).dest
     IN dest = rel.thunk + (IF SiteIsThumb(rel.r_type) THEN 0 ELSE 4)

\* Where the ARM entry of a slot at address P branches to: ldr ip, [pc, #imm]
\* at P + 4 reads the literal, add ip, ip, pc at P + 8 adds P + 16, bx ip.
ARM_StubTarget(buf, P) ==
  LET imm == buf[2][1] % 4096
      lit == buf[((4 + 8 + imm) \div 4) + 1]
  IN Add32(lit, Word32(P + 8 + 8))

\* r2 + (imm_ha << 16) + imm_lo, both immediates sign-extended, as addis
\* followed by addi or by the displacement of ld computes it.
PPC_TocRelative(toc, imm_ha, imm_lo) ==
  Add64(Add64(toc, Shl16(SignExtend16(imm_ha))), SignExtend16(imm_lo))

\* The address a PPC64 local slot branches to.
PPC_LocalStubTarget(buf, toc) == PPC_TocRelative(toc, buf[1][1], buf[2][1])

\* The address a PPC64 PLT slot loads its destination from; the two low bits
\* of the low halfword of ld belong to the opcode.
PPC_PltStubLoad(buf, toc) ==
  PPC_TocRelative(toc, buf[2][1], buf[3][1] - (buf[3][1] % 4))

\* C21: the stub of every slot that copy_buf wrote branches to the final
\* address of the slot's symbol: on ARM the literal at slot + 16 is
\* S - P - 16 and add ip, ip, pc gives S with its Thumb bit; on PPC64 a slot
\* without PLT gives TOC + val = S + local entry offset, and a PLT slot loads
\* from the symbol's GOT slot if it has one, else from its GOT-PLT slot.
C21_ThunkTargetsSymbol ==
  (pass = "thunk" /\ th_buf # <<>>) =>
    IF arch = "ARM32"
    THEN LET P == ARM_SlotAddr(th_sym.base, th_sym.i)
         IN /\ th_buf[5] = Word32(th_sym.S - P - 16)
            /\ ARM_StubTarget(th_buf, P) = Word32(th_sym.S)
    ELSE IF th_sym.has_plt
    THEN /\ PPC_PltStubLoad(th_buf, th_sym.TOC)
              = IF th_sym.has_got THEN th_sym.got_addr ELSE th_sym.gotplt_addr
         /\ th_buf[3][1] % 4 = 0
    ELSE PPC_LocalStubTarget(th_buf, th_sym.TOC)
           = Add64(th_sym.S, LocalEntry64(th_sym.local_entry))

C23_TlsdescRelaxationConsistent ==
  /\ (pass = "scan" /\ arch = "ARM32") =>
       \A s \in Symbols :
         relax_tlsdesc(output_kind, s) => "NEEDS_TLSDESC" \notin flags[s]
  /\ (LastIs("alloc", "ARM32") /\ last.rel.r_type \in ARM_TlsKinds) =>
       LET rel == last.rel
       IN /\ rel.relax =>
               /\ ~has_tlsdesc(rel)
               /\ last.out.how = "relaxed"
               /\ last.out.insn =
                    CASE rel.r_type = "R_ARM_TLS_GOTDESC" -> Word32(rel.S - rel.tp_addr)
                      [] rel.r_type = "R_ARM_TLS_CALL" -> <<61440, 58144>>
                      [] rel.r_type = "R_ARM_THM_TLS_CALL" -> <<62383, 32768>>
               /\ \A idx \in 0..Len(ARM_Thunks) : TrampolineIdxAfter(rel, idx) = idx
          /\ (has_tlsdesc(rel) /\ rel.r_type = "R_ARM_TLS_GOTDESC") =>
               last.out.insn = Word32(rel.tlsdesc_addr - rel.P + rel.A
                                        - (IF rel.A % 2 = 1 THEN 6 ELSE 4))

\* C23's case: the GOTDESC word of a Thumb call to a symbol with a descriptor
\* has been written.
C23_Witness ==
  /\ LastIs("alloc", "ARM32")
  /\ last.rel.r_type = "R_ARM_TLS_GOTDESC"
  /\ has_tlsdesc(last.rel) /\ ~last.rel.relax
  /\ last.rel.A % 2 = 1
  /\ last.out.val = last.rel.tlsdesc_addr - last.rel.P + last.rel.A - 6

\* A TLS call against a symbol with a descriptor has just been applied.
LastTlsCall ==
  /\ LastIs("alloc", "ARM32")
  /\ last.rel.r_type \in {"R_ARM_TLS_CALL", "R_ARM_THM_TLS_CALL"}
  /\ has_tlsdesc(last.rel)

\* C25: for every R_ARM_TLS_CALL or R_ARM_THM_TLS_CALL against a symbol with
\* a descriptor, get_trampoline_addr returns a displacement to a thunk of the
\* output section that is within reach, whatever the order of the relocation
\* offsets of the section: the search never runs past the last thunk.
C25_TrampolineFound ==
  LastTlsCall =>
    /\ last.out.how = "trampoline"
    /\ trampoline_idx < Len(ARM_Thunks)
    /\ is_jump_reachable(last.out.val)
    /\ last.out.val = ARM_Thunks[trampoline_idx + 1] - TrampolineArg(last.rel)

\* The thunk index of the search never decreases from one relocation of the
\* section to the next.
C25_IndexNeverDecreases ==
  [][pass = "alloc" => trampoline_idx' >= trampoline_idx]_vars

\* What the value of entry i (counted from 1) of table t means: the word
\* itself when it is CANTUNWIND or has its MSB set, and the address it points
\* to, counted from the start of the table, when it is relative.
ExMeaning(t, i) ==
  IF is_relative(t[i].val)
  THEN <<"record at", sign_extend30(t[i].val) + SizeofEntry * (i - 1)>>
  ELSE <<"word", t[i].val>>

\* The function and the meaning of the value of every entry of table t.
ExContent(t) == [i \in DOMAIN t |-> <<ExFuncAddr(t, i), ExMeaning(t, i)>>]

\* C24: sort_arm_exidx only permutes and re-bases the table: the entries
\* after the pass are those before it, each with the same function address
\* and the same meaning of its value (CANTUNWIND and values with the MSB set
\* carried as they are, relative values pointing to the same place), also
\* for an entry whose value counted from the start of the table is 1.
C24_ExidxSortPreservesEntries ==
  (pass = "exidx" /\ ex_osec /\ ex_phase = "done") =>
    \E p \in [DOMAIN ex_in -> DOMAIN ex_in] :
      /\ \A i \in DOMAIN ex_in : \E j \in DOMAIN ex_in : p[j] = i
      /\ \A i \in DOMAIN ex_in : ExContent(ex_tab)[i] = ExContent(ex_in)[p[i]]

====
